---- MODULE Spec2Model ----
(***************************************************************************)
(* The background conversion job of ppt2viedo_server: the Celery task      *)
(* convert_ppt_to_video_task (tasks.py) and the core_logic functions it    *)
(* drives, together with the status query of app.py.                       *)
(*                                                                         *)
(* Durations are integers in milliseconds (0.01 s = 10).  The file system  *)
(* is modelled by existence flags of the files the pipeline names.         *)
(* External tools (soffice, pdf2image, edge-tts, ffprobe, ffmpeg, whisper) *)
(* are the environment: each invocation draws its outcome with \E.         *)
(***************************************************************************)
EXTENDS Integers, Sequences, FiniteSets, TLC

\* ------------------------------------------------------------------ bounds
MaxSlides == 2
MaxRetries == 1

\* ------------------------------------------------------- program constants
STAGE_START == "Initializing"
STAGE_PPT_PROCESSING == "Processing Presentation"
STAGE_PPT_IMAGES == "Exporting Slides"
STAGE_EXTRACT_NOTES == "Extracting Notes"
STAGE_GENERATE_AUDIO == "Generating Audio"
STAGE_VIDEO_SYNTHESIS == "Synthesizing Video"
STAGE_VIDEO_SEGMENTS == "Creating Video Segments"
STAGE_VIDEO_CONCAT == "Concatenating Video"
STAGE_GENERATE_SUBTITLES == "Generating Subtitles (ASR)"
STAGE_ADD_SUBTITLES == "Adding Subtitles"
STAGE_CLEANUP == "Cleaning Up"
STAGE_COMPLETE == "Complete"

KNOWN_EDGE_VOICES ==
  { "zh-CN-XiaoxiaoNeural", "zh-CN-YunxiNeural", "zh-CN-YunjianNeural",
    "zh-CN-XiaoyiNeural", "zh-CN-liaoning-XiaobeiNeural",
    "zh-CN-shaanxi-XiaoniNeural", "en-US-JennyNeural", "en-US-GuyNeural",
    "en-US-AriaNeural", "en-US-DavisNeural", "en-US-SaraNeural",
    "en-US-ChristopherNeural", "en-GB-LibbyNeural", "en-GB-RyanNeural",
    "en-GB-SoniaNeural", "en-AU-NatashaNeural", "en-AU-WilliamNeural" }

\* utils.get_audio_duration: "duration >= 0.01" (milliseconds here)
MinProbeDuration == 10
\* ppt_processor / video_synthesizer: "> 0.01"
UsableThreshold == 10
\* config.getfloat('Video', 'default_slide_duration', fallback=3.0)
DefaultSlideDuration == 3000

None == "None"
NoProgress == -1
NoAudio == 0        \* audio_path None (a path is the number of its segment)
NotProbed == -1
ProbeError == -2

\* ------------------------------------------------------------------- state
VARIABLES
  pc,              \* position of the worker inside convert_ppt_to_video_task
  voice_id,        \* task argument voice_id
  pptx_is_file,    \* the source document exists
  tts_retries,     \* config [Audio] tts_retries
  cleanup_temp,    \* config [General] cleanup_temp_dir
  paths_cfg,       \* config [Paths]: tool -> configured value (the tool name when absent)
  on_path,         \* the names and paths shutil.which resolves
  platform_system, \* platform.system()
  mac_soffice,     \* /Applications/LibreOffice.app/Contents/MacOS/soffice exists
  updates,         \* every write to the result backend, in order
  temp_run_dir,    \* the task's local temp_run_dir (None until phase 1 returns)
  scratch_exists,  \* the directory task_<run_id>_<stem> exists on disk
  failure,         \* the exception that is propagating ("" if none)
  retval,          \* the value the task function returns (None if it raised)
  image_paths,     \* phase 1: slide numbers k of the exported slide_<k>.png, in order
  image_files,     \* the slide images that exist on disk
  notes_list,      \* phase 1: one note string per slide of the document
  audio_results,   \* phase 1: one (audio_path, duration) pair per note
  audio_files,     \* the segment_<n>.mp3 files on disk: n -> "none" | "partial" | "small" | "good"
  probed,          \* what ffprobe reported per slide: NotProbed, ProbeError or milliseconds
  idx,             \* index of the per-slide loop that is running
  tts_attempt,     \* generate_audio_segment: the loop variable attempt
  tts_calls,       \* engine invocations made by the running generate_audio_segment call
  tts_result,      \* its return value (None while running)
  calls,           \* invocations of the external tools so far: tool -> count
  processed_data,  \* the Slide Records phase 1 hands to phase 2
  segment_files,   \* phase 2: the segments built so far, in order
  segment_disk,    \* slide numbers whose segment_<n>.mp4 exists on disk
  seg_result,      \* outcome of the latest create_video_segment call
  base_video,      \* base_video_no_subs_*.mp4 exists in the scratch directory
  srt_exists,      \* subtitles.srt exists in the scratch directory
  final_video,     \* the file at the final output path: "none" | "subtitled" | "unsubtitled" | "partial"
  asr_input,       \* the audio paths handed to generate_subtitles
  subtitles_generated, \* synthesize_video_for_task: subtitles_generated
  asr_errors_occurred, \* synthesize_video_for_task: asr_errors_occurred
  output_video_filename, \* TaskRecord.output_video_filename of the job's record
  response,        \* the latest answer of get_task_status
  job_args,        \* two jobs on separate workers: job -> its task id and the stem of its document
  job_pc,          \* job -> position of its worker
  job_dir,         \* job -> the name of its scratch directory (empty until created)
  job_out,         \* job -> the name of its output file (empty until built)
  job_result,      \* job -> "none" | "ok" | "failed"
  disk,            \* << directory, job >>: the directory holds files that job wrote
  out_files,       \* << name, job >>: the file of that name in the output directory is that job's
  submit_req,      \* the POST request the upload page receives, and what it meets on the server
  submit_out,      \* what the index handler did with it
  delivery,        \* what the worker made of the message: "none" | "bound" | "TypeError"
  seg_args,        \* create_video_segment called on its own: its arguments and the muxer's exits
  concat_io,       \* concatenate_videos called on its own: its arguments and what it left
  call_io,         \* one more function called on its own: its arguments and what it returned
  located          \* the calls of get_tool_path made one after the other: << [tool, path] >>

configVars == << voice_id, pptx_is_file, tts_retries, cleanup_temp, paths_cfg,
                 on_path, platform_system, mac_soffice >>

taskVars == << temp_run_dir, scratch_exists, failure, retval >>
phase1Vars == << image_paths, image_files, notes_list, audio_results, audio_files,
                probed, idx >>
ttsVars == << tts_attempt, tts_calls, tts_result >>

phase2Vars == << processed_data, segment_files, segment_disk, seg_result, base_video,
                srt_exists, final_video, asr_input, subtitles_generated,
                asr_errors_occurred >>
webVars == << output_video_filename, response >>

submitVars == << submit_req, submit_out, delivery >>

\* The state of the one conversion job
taskState == << pc, configVars, updates, taskVars, phase1Vars, ttsVars, calls, phase2Vars,
                webVars >>

jobVars == << job_args, job_pc, job_dir, job_out, job_result, disk, out_files >>

fleetVars == << jobVars, submitVars, located, seg_args, concat_io, call_io, call_io >>

vars == << pc, configVars, updates, taskVars, phase1Vars, ttsVars, calls, phase2Vars,
           webVars, fleetVars >>

External == {"soffice", "pdf2image", "edge_tts", "ffprobe", "ffmpeg_segment",
             "ffmpeg_concat", "ffmpeg_audio_concat", "whisper", "ffmpeg_subtitles"}
Invoke(tool) == [calls EXCEPT ![tool] = @ + 1]

Tools == {"soffice", "ffmpeg", "ffprobe"}
MacSofficePath == "/Applications/LibreOffice.app/Contents/MacOS/soffice"

\* ---------------------------------------------------------- result backend
\* One call of task_instance.update_state(state, meta): Celery stores the state
\* and replaces the stored meta by the dictionary passed.
U(state, stage, progress, status) ==
  [ state |-> state, stage |-> stage, progress |-> progress, status |-> status,
    error |-> FALSE, traceback |-> FALSE, stderr |-> FALSE, output_path |-> None,
    is_dict |-> TRUE ]

Processing(stage, progress, status) == U("PROCESSING", stage, progress, status)

\* update_state(state='FAILURE', meta={'error', 'exc_type', 'traceback', 'stage'})
FailureUpdate(stage) ==
  [ U("FAILURE", stage, NoProgress, "") EXCEPT !.error = TRUE, !.traceback = TRUE ]

Last(s) == s[Len(s)]

task_state == IF updates = << >> THEN "PENDING" ELSE Last(updates).state
task_info == IF updates = << >> THEN U("PENDING", "", NoProgress, "") ELSE Last(updates)

\* ------------------------------------------------------------ tool locator
which(name) == IF name \in on_path THEN name ELSE None

\* [Paths] has no <tool>_path entry, or the configuration has no [Paths] section
NoEntry == "NoEntry"

\* utils.py 32: config.get('Paths', f'{tool_name}_path', fallback=tool_name)
config_get_path(tool_name) ==
  IF paths_cfg[tool_name] = NoEntry THEN tool_name ELSE paths_cfg[tool_name]

\* get_tool_path that looks for the default name before the configured value
get_tool_path_name_first(tool_name) ==
  LET tool_path_config == config_get_path(tool_name) IN
  IF which(tool_name) # None THEN which(tool_name)
  ELSE IF which(tool_path_config) # None THEN which(tool_path_config)
  ELSE IF tool_name = "soffice" /\ platform_system = "Darwin" /\ mac_soffice
       THEN MacSofficePath
  ELSE None

\* get_tool_path that tries the default name on the first call only
get_tool_path_first_call(tool_name) ==
  LET tool_path_config == config_get_path(tool_name) IN
  IF which(tool_path_config) # None THEN which(tool_path_config)
  ELSE IF located = << >> /\ which(tool_name) # None THEN which(tool_name)
  ELSE None

\* utils.py 18-60
get_tool_path(tool_name) ==
  LET tool_path_config == config_get_path(tool_name) IN
  IF which(tool_path_config) # None THEN which(tool_path_config)
  ELSE IF tool_path_config # tool_name /\ which(tool_name) # None THEN which(tool_name)
  ELSE IF tool_name = "soffice" /\ platform_system = "Darwin" /\ mac_soffice
       THEN MacSofficePath
  ELSE None

\* create_video_segment returned False: no segment file, no audio track
NoSegment == [called |-> TRUE, ok |-> FALSE, output |-> FALSE, temp |-> FALSE,
              muxer_calls |-> 0, audio |-> FALSE]
\* the loop of synthesize_video_for_task has not called create_video_segment yet
Unbuilt == [NoSegment EXCEPT !.called = FALSE]
NoResponse == [state |-> "", has_result |-> FALSE, has_download_url |-> FALSE,
               has_error |-> FALSE, meta |-> U("", "", NoProgress, "")]

\* The jobs of the two-worker view
Jobs == {"job1", "job2"}

\* ---------------------------------------------------------------- the task
\* The arguments and the configuration the job is run with
JobConfig ==
  /\ voice_id \in {"zh-CN-XiaoxiaoNeural", "xx-XX-NoSuchNeural", ""}
  /\ pptx_is_file \in BOOLEAN
  /\ tts_retries \in 0..MaxRetries
  /\ cleanup_temp \in BOOLEAN
  /\ paths_cfg = [t \in Tools |-> t]
  /\ on_path \in SUBSET Tools
  /\ platform_system = "Linux"
  /\ mac_soffice = FALSE

\* The worker has not taken the job
NothingRun ==
  /\ pc = "queued"
  /\ updates = << >>
  /\ temp_run_dir = None
  /\ scratch_exists = FALSE
  /\ failure = ""
  /\ retval = None
  /\ image_paths = << >>
  /\ image_files = {}
  /\ notes_list = << >>
  /\ audio_results = << >>
  /\ audio_files = [n \in 1..MaxSlides |-> "none"]
  /\ probed = [n \in 1..MaxSlides |-> NotProbed]
  /\ idx = 0
  /\ tts_attempt = 0
  /\ tts_calls = 0
  /\ tts_result = "none"
  /\ calls = [t \in External |-> 0]
  /\ processed_data = << >>
  /\ segment_files = << >>
  /\ segment_disk = {}
  /\ seg_result = Unbuilt
  /\ base_video = FALSE
  /\ srt_exists = FALSE
  /\ final_video = "none"
  /\ asr_input = << >>
  /\ subtitles_generated = FALSE
  /\ asr_errors_occurred = FALSE
  /\ output_video_filename = None
  /\ response = NoResponse

\* The job is queued: its arguments and configuration are drawn, nothing has run
TaskQueued ==
  /\ JobConfig
  /\ NothingRun

\* No job of the two-worker view exists
JobsIdle ==
  /\ job_args = [j \in Jobs |-> [task_id |-> << >>, stem |-> << >>]]
  /\ job_pc = [j \in Jobs |-> "idle"]
  /\ job_dir = [j \in Jobs |-> << >>]
  /\ job_out = [j \in Jobs |-> << >>]
  /\ job_result = [j \in Jobs |-> "none"]
  /\ disk = {}
  /\ out_files = {}

\* A request as the browser sends it: the file part of the form, the voice
\* field, and what the handler finds on the server
NoRequest == [ celery_available |-> FALSE, can_create |-> FALSE, has_file |-> FALSE,
               filename |-> << >>, voice_id |-> "", voices_available |-> FALSE,
               typing |-> FALSE ]

\* The handler has not answered
NoAnswer == [ http |-> "none", saved |-> FALSE, record |-> "none", args |-> << >>,
              job_id |-> "none" ]

\* No upload has been made
SubmitIdle ==
  /\ submit_req = NoRequest
  /\ submit_out = NoAnswer
  /\ delivery = "none"

\* create_video_segment has not been called on its own
NoSegmentCall == [ image_is_file |-> FALSE, duration |-> 0, audio_is_valid |-> FALSE,
                   outcome |-> [step1 |-> "ok", step2 |-> "ok", move |-> "ok"] ]

\* concatenate_videos has not been called on its own
NoConcatCall == [ video_file_paths |-> << >>, on_disk |-> {}, exit |-> "ok",
                  returned |-> "none", playlist |-> << >>, list_file |-> FALSE,
                  output |-> FALSE, muxer_calls |-> 0 ]

\* No function has been called on its own
NoCall == [fn |-> "none"]

FleetIdle ==
  /\ JobsIdle
  /\ SubmitIdle
  /\ located = << >>
  /\ seg_args = NoSegmentCall
  /\ concat_io = NoConcatCall
  /\ call_io = NoCall

Init == TaskQueued /\ FleetIdle

\* tasks.py 63-74: the two status writes that open the task
TaskStart ==
  /\ pc = "queued"
  /\ updates' = updates \o << U("STARTED", STAGE_START, 0, ""),
                              Processing(STAGE_START, 5, "") >>
  /\ pc' = "prepare"
  /\ UNCHANGED << fleetVars, configVars, taskVars, phase1Vars, ttsVars, calls,
                  phase2Vars, webVars >>

\* tasks.py 76-106: read config.ini, create the base temp directory
Prepare ==
  /\ pc = "prepare"
  /\ \E ok \in {"ok", "config_unreadable", "mkdir_failed"} :
       IF ok = "ok"
       THEN /\ updates' = Append(updates, Processing(STAGE_PPT_PROCESSING, 10, ""))
            /\ pc' = "phase1"
            /\ UNCHANGED failure
       ELSE /\ updates' = Append(updates, FailureUpdate(STAGE_START))
            /\ failure' = "RuntimeError"
            /\ pc' = "outer_except"
  /\ UNCHANGED << fleetVars, configVars, temp_run_dir, scratch_exists, retval, phase1Vars, ttsVars, calls,
                  phase2Vars, webVars >>

\* ------------------------------------------- phase 1: process_presentation
\* ppt_processor.py 198-222: argument checks, then the job's scratch directory
\* task_<run_id>_<stem> is created; the path lives in the callee's local
\* variable and reaches the task only through the return value.
Phase1Start ==
  /\ pc = "phase1"
  /\ IF ~pptx_is_file
     THEN /\ failure' = "FileNotFoundError"
          /\ pc' = "phase1_except"
          /\ UNCHANGED << updates, scratch_exists >>
     ELSE IF voice_id = ""
     THEN /\ failure' = "ValueError"
          /\ pc' = "phase1_except"
          /\ UNCHANGED << updates, scratch_exists >>
     ELSE \E mkdir_ok \in BOOLEAN :
          IF mkdir_ok
          THEN /\ scratch_exists' = TRUE
               /\ updates' = Append(updates,
                    Processing(STAGE_PPT_IMAGES, 0, "Starting slide export"))
               /\ pc' = "export"
               /\ UNCHANGED failure
          ELSE /\ failure' = "OSError"
               /\ pc' = "phase1_except"
               /\ UNCHANGED << updates, scratch_exists >>
  /\ UNCHANGED << fleetVars, configVars, temp_run_dir, retval, phase1Vars, ttsVars, calls,
                  phase2Vars, webVars >>

\* The status writes of the rename pass, one per image: 25 + int(i / num_pages * 60)
ImageProgress(n) ==
  [ i \in 1..n |-> Processing(STAGE_PPT_IMAGES, 25 + ((i * 60) \div n), "Converting image") ]

\* What the exporter's external tools can do: pdf2image is not importable,
\* soffice exits non-zero, times out or leaves no PDF, the rasterizer raises, or
\* the rasterizer writes n page images.
ExportOutcomes ==
  { [kind |-> k, n |-> 0] :
      k \in {"no_pdf2image", "lo_nonzero", "lo_timeout", "lo_no_pdf", "raster_error"} }
  \cup { [kind |-> "images", n |-> n] : n \in 0..MaxSlides }

\* ppt_exporter_libreoffice.py 68-277: what the exporter writes to the backend
\* for an outcome of its external tools, up to its return.
ExportUpdates(outcome, soffice) ==
  LET start == << Processing(STAGE_PPT_IMAGES, 0, "Starting slide export with LibreOffice") >>
      ready == start \o
        << Processing(STAGE_PPT_IMAGES, 2, "Output directory checked"),
           Processing(STAGE_PPT_IMAGES, 5, "Temp PDF directory created"),
           Processing(STAGE_PPT_IMAGES, 10, "Running LibreOffice conversion") >>
      pdf == ready \o
        << Processing(STAGE_PPT_IMAGES, 20, "LibreOffice conversion complete"),
           Processing(STAGE_PPT_IMAGES, 25, "Starting PDF to image conversion") >>
  IN
  IF outcome.kind = "no_pdf2image"
  THEN Append(start, Processing(STAGE_PPT_IMAGES, NoProgress, "Error: pdf2image not available"))
  ELSE IF soffice = None
  THEN Append(start, Processing(STAGE_PPT_IMAGES, NoProgress, "Error: soffice not found"))
  ELSE IF outcome.kind = "lo_nonzero"
  \* the CalledProcessError handler reads result_pdf, which was never bound; the
  \* resulting error is caught by the outermost handler of the exporter
  THEN Append(ready, Processing(STAGE_PPT_PROCESSING, NoProgress, "Error during PPT processing"))
  ELSE IF outcome.kind = "lo_timeout"
  THEN Append(ready, Processing(STAGE_PPT_IMAGES, NoProgress, "Error: LibreOffice conversion timed out"))
  ELSE IF outcome.kind = "lo_no_pdf"
  THEN Append(ready, Processing(STAGE_PPT_IMAGES, NoProgress, "Error: PDF file not created or empty"))
  ELSE IF outcome.kind = "raster_error"
  THEN Append(pdf, Processing(STAGE_PPT_IMAGES, NoProgress, "Error: PDF to image failed"))
  ELSE IF outcome.n = 0
  THEN Append(pdf, Processing(STAGE_PPT_IMAGES, NoProgress, "Error: No images exported"))
  ELSE pdf \o ImageProgress(outcome.n)

\* ppt_exporter_libreoffice.py 46-277: the list of image paths; the empty
\* list stands for the None the exporter returns on every failure (the caller
\* tests "not image_paths")
export_slides_with_libreoffice(outcome, soffice) ==
  IF outcome.kind = "images" /\ soffice # None
  THEN [ i \in 1..outcome.n |-> i ]
  ELSE << >>

\* ppt_processor.py 221-247: step 1 of phase 1, the slide export, then the
\* status write that opens step 2
ExportSlides ==
  /\ pc = "export"
  /\ \E outcome \in ExportOutcomes :
       LET soffice == get_tool_path("soffice")
           images == export_slides_with_libreoffice(outcome, soffice)
           ran == soffice # None /\ outcome.kind # "no_pdf2image"
           rastered == ran /\ outcome.kind \in {"raster_error", "images"}
       IN
       /\ calls' = [ calls EXCEPT !["soffice"] = @ + (IF ran THEN 1 ELSE 0),
                                  !["pdf2image"] = @ + (IF rastered THEN 1 ELSE 0) ]
       /\ IF images = << >>
          THEN /\ updates' = updates \o ExportUpdates(outcome, soffice)
               /\ failure' = "RuntimeError"
               /\ pc' = "phase1_except"
               /\ UNCHANGED << image_paths, image_files >>
          ELSE /\ updates' = updates \o ExportUpdates(outcome, soffice) \o
                    << Processing(STAGE_PPT_IMAGES, 100, "Slide export complete"),
                       Processing(STAGE_EXTRACT_NOTES, 0, "Starting notes extraction") >>
               /\ image_paths' = images
               /\ image_files' = { images[i] : i \in 1..Len(images) }
               /\ pc' = "notes"
               /\ UNCHANGED failure
  /\ UNCHANGED << fleetVars, configVars, temp_run_dir, scratch_exists, retval, notes_list,
                  audio_results, audio_files, probed, idx, ttsVars,
                  phase2Vars, webVars >>

\* The note lists extract_speaker_notes can return: one stripped string per
\* slide of the document, "" where a slide has no notes.
RECURSIVE SeqsUpTo(_, _)
SeqsUpTo(S, n) ==
  IF n = 0 THEN { << >> }
  ELSE LET shorter == SeqsUpTo(S, n - 1)
       IN shorter \cup { Append(q, x) : q \in { r \in shorter : Len(r) = n - 1 }, x \in S }

NoteLists == SeqsUpTo({"", "note"}, MaxSlides)

\* ppt_processor.py 249-257 with extract_speaker_notes (56-93): step 2
ExtractNotes ==
  /\ pc = "notes"
  /\ \E parse_ok \in BOOLEAN, parsed \in NoteLists :
       IF ~parse_ok
       THEN /\ parsed = << >>
            /\ failure' = "RuntimeError"
            /\ pc' = "phase1_except"
            /\ UNCHANGED << updates, notes_list >>
       ELSE /\ notes_list' = parsed
            /\ updates' = Append(updates,
                 Processing(STAGE_EXTRACT_NOTES, 100, "Notes extraction complete"))
            /\ pc' = "align"
            /\ UNCHANGED failure
  /\ UNCHANGED << fleetVars, configVars, temp_run_dir, scratch_exists, retval, image_paths,
                  image_files, audio_results, audio_files, probed, idx, ttsVars, calls,
                  phase2Vars, webVars >>

Min(a, b) == IF a <= b THEN a ELSE b

\* min_count one short
min_count_short(num_images, num_notes) == Min(num_images, num_notes) - 1

\* ppt_processor.py 264: min_count = min(num_images, num_notes)
min_count(num_images, num_notes) == Min(num_images, num_notes)

\* ppt_processor.py 259-284: step 3, alignment of images and notes, then the
\* opening of step 4
AlignSlides ==
  /\ pc = "align"
  /\ LET num_images == Len(image_paths)
         num_notes == Len(notes_list)
         count == min_count(num_images, num_notes)
     IN
     IF (num_images # num_notes /\ count = 0) \/ (num_images = num_notes /\ num_images = 0)
     THEN /\ failure' = "ValueError"
          /\ pc' = "phase1_except"
          /\ UNCHANGED << updates, image_paths, notes_list, idx, audio_results >>
     ELSE /\ image_paths' = IF num_images # num_notes
                            THEN SubSeq(image_paths, 1, count) ELSE image_paths
          /\ notes_list' = IF num_images # num_notes
                           THEN SubSeq(notes_list, 1, count) ELSE notes_list
          /\ updates' = Append(updates,
               Processing(STAGE_GENERATE_AUDIO, 0, "Starting audio generation"))
          /\ audio_results' = << >>
          /\ idx' = 1
          /\ pc' = "audio"
          /\ UNCHANGED failure
  /\ UNCHANGED << fleetVars, configVars, temp_run_dir, scratch_exists, retval, image_files,
                  audio_files, probed, ttsVars, calls,
                  phase2Vars, webVars >>

\* ---------------------------------- speech synthesis: tts_manager_edge.py
\* IsBlank that takes only the empty text for blank
IsBlank_empty_only(text) == text = ""

\* tts_manager_edge.py 181 and ppt_processor.py 135: not text or text.isspace()
IsBlank(text) == text = "" \/ text = " "

\* What one run of the synthesis engine (_synthesize_edge_audio_async under
\* run_async_in_sync) can do: report success and leave a file above the size
\* threshold, a file at or below it, or no file; report failure and leave a
\* partial file or none; or raise.
EngineOutcomes == {"ok_good", "ok_small", "ok_missing", "fail_partial", "fail_clean", "raise"}

\* The file at output_path after the engine ran (the engine opens it for writing)
FileAfterEngine(before, outcome) ==
  CASE outcome = "ok_good" -> "good"
    [] outcome = "ok_small" -> "small"
    [] outcome = "ok_missing" -> "none"
    [] outcome = "fail_partial" -> "partial"
    [] OTHER -> before

\* tts_manager_edge.py 177-196: the checks before the retry loop
TtsEnter ==
  /\ pc = "tts_enter"
  /\ tts_calls' = 0
  /\ tts_attempt' = 0
  /\ IF voice_id \notin KNOWN_EDGE_VOICES \/ IsBlank(notes_list[idx]) \/ ~(0 < tts_retries + 1)
     THEN /\ tts_result' = "false"
          /\ pc' = "tts_return"
     ELSE /\ tts_result' = "none"
          /\ pc' = "tts_attempt"
  /\ UNCHANGED << fleetVars, configVars, updates, taskVars, phase1Vars, calls,
                  phase2Vars, webVars >>

\* file_valid accepting every file that is not empty
file_valid_nonempty(written) == written \in {"good", "small"}

\* tts_manager_edge.py 219: output_path.exists() and output_path.stat().st_size > 100
file_valid(written) == written = "good"

\* should_retry with "<=" for "<"
should_retry_inclusive(attempt, max_retries) == attempt <= max_retries

\* tts_manager_edge.py 238: "not success and attempt < max_retries"
should_retry(attempt, max_retries) == attempt < max_retries

\* tts_manager_edge.py 198-249: one iteration of "for attempt in range(max_retries + 1)";
\* a retry after the last iteration of the range falls out of the loop to the
\* closing "return False" of line 249
TtsAttempt ==
  /\ pc = "tts_attempt"
  /\ \E outcome \in EngineOutcomes :
       LET written == FileAfterEngine(audio_files[idx], outcome)
           synthesis_result == outcome \in {"ok_good", "ok_small", "ok_missing"}
           success == synthesis_result /\ file_valid(written)
           \* 225: an invalid file of an attempt the engine called successful is unlinked
           checked == IF synthesis_result /\ ~success THEN "none" ELSE written
       IN
       /\ tts_calls' = tts_calls + 1
       /\ calls' = Invoke("edge_tts")
       /\ IF success
          THEN /\ audio_files' = [audio_files EXCEPT ![idx] = checked]
               /\ tts_result' = "true"
               /\ pc' = "tts_return"
               /\ UNCHANGED tts_attempt
          ELSE IF should_retry(tts_attempt, tts_retries)
          THEN /\ audio_files' = [audio_files EXCEPT ![idx] = checked]
               /\ tts_attempt' = tts_attempt + 1
               /\ IF tts_attempt + 1 < tts_retries + 1
                  THEN UNCHANGED << tts_result, pc >>
                  ELSE /\ tts_result' = "false"
                       /\ pc' = "tts_return"
          ELSE /\ audio_files' = [audio_files EXCEPT ![idx] = "none"]
               /\ tts_result' = "false"
               /\ pc' = "tts_return"
               /\ UNCHANGED tts_attempt
  /\ UNCHANGED << fleetVars, configVars, updates, taskVars, image_paths, image_files, notes_list,
                  audio_results, probed, idx,
                  phase2Vars, webVars >>

\* ------------------------------------------------ audio prober: utils.py
NoField == -1       \* the duration key is absent
Unknown == -1       \* get_audio_duration returns None

\* utils.py 140-160: format.duration first, then the first audio stream's
BadField == -2      \* the duration key is there and float() raises on its value

\* parsed_duration taking the stream's duration before the container's
parsed_duration_stream_first(out) ==
  LET hits == { i \in 1..Len(out.streams) :
                  out.streams[i].codec_type = "audio" /\ out.streams[i].duration >= 0 } IN
  IF hits # {} THEN out.streams[CHOOSE i \in hits : \A k \in hits : i <= k].duration
  ELSE IF out.format >= 0 THEN out.format
  ELSE Unknown

\* utils.py 140-160: format.duration when float() takes it; otherwise the loop
\* over the streams, which stops at the first audio stream that has a duration
\* float() takes
parsed_duration(out) ==
  LET hits == { i \in 1..Len(out.streams) :
                  out.streams[i].codec_type = "audio" /\ out.streams[i].duration >= 0 } IN
  IF out.format >= 0 THEN out.format
  ELSE IF hits # {} THEN out.streams[CHOOSE i \in hits : \A k \in hits : i <= k].duration
  ELSE Unknown

\* utils.py 95-185
get_audio_duration(is_file, ffprobe_path, out) ==
  IF ~is_file THEN Unknown
  ELSE IF ffprobe_path = None THEN Unknown
  ELSE IF out.rc # "ok" THEN Unknown
  ELSE IF ~out.json THEN Unknown
  ELSE IF parsed_duration(out) # Unknown /\ parsed_duration(out) >= MinProbeDuration
       THEN parsed_duration(out)
  ELSE Unknown

ProbeDurations == {9, 10, 2100}

\* The answers of ffprobe the job is run against
JobProbeOutputs ==
  { [rc |-> "nonzero", json |-> FALSE, format |-> NoField, streams |-> << >>] }
  \cup { [rc |-> "ok", json |-> TRUE, format |-> d, streams |-> << >>] : d \in ProbeDurations }

\* ------------------------------------- phase 1, step 4: the audio segments
\* no_audio_result keeping the path of the file that was asked for
no_audio_result_stale == [audio_path |-> idx, duration |-> 0]

\* ppt_processor.py 135-136 and 177: the entry (None, 0.0) appended for a slide
\* without audio
no_audio_result == [audio_path |-> NoAudio, duration |-> 0]

\* ppt_processor.py 130-151 and 173-177: one iteration of the loop over notes,
\* up to the call of generate_audio_segment
AudioSegment ==
  /\ pc = "audio"
  /\ idx <= Len(notes_list)
  /\ IF ~IsBlank(notes_list[idx])
     THEN /\ pc' = "tts_enter"
          /\ UNCHANGED << audio_results, idx >>
     ELSE /\ audio_results' = Append(audio_results, no_audio_result)
          /\ idx' = idx + 1
          /\ UNCHANGED pc
  /\ UNCHANGED << fleetVars, configVars, updates, taskVars, image_paths, image_files, notes_list,
                  audio_files, probed, ttsVars, calls,
                  phase2Vars, webVars >>

\* usable_raw that takes every duration the prober returned
usable_raw_any(duration_sec_raw) == duration_sec_raw # Unknown

\* ppt_processor.py 157: duration_sec_raw is not None and duration_sec_raw > 0.01
usable_raw(duration_sec_raw) == duration_sec_raw # Unknown /\ duration_sec_raw > UsableThreshold

\* ppt_processor.py 153-177: the rest of the iteration, after generate_audio_segment returned
AudioResult ==
  /\ pc = "tts_return"
  /\ IF tts_result = "true"
     THEN LET ffprobe_path == get_tool_path("ffprobe") IN
          \E out \in JobProbeOutputs :
            LET duration_sec_raw ==
                  get_audio_duration(audio_files[idx] # "none", ffprobe_path, out)
            IN
            /\ ffprobe_path = None => out.rc = "nonzero"
            /\ calls' = IF ffprobe_path # None THEN Invoke("ffprobe") ELSE calls
            /\ probed' = [probed EXCEPT ![idx] =
                 IF ffprobe_path = None \/ out.rc # "ok" \/ parsed_duration(out) = Unknown
                 THEN ProbeError ELSE parsed_duration(out)]
            /\ audio_results' = Append(audio_results,
                 [ audio_path |-> idx,
                   duration |-> IF usable_raw(duration_sec_raw) THEN duration_sec_raw ELSE 0 ])
     ELSE /\ audio_results' = Append(audio_results, no_audio_result)
          /\ UNCHANGED << probed, calls >>
  /\ idx' = idx + 1
  /\ tts_result' = "none"
  /\ pc' = "audio"
  /\ UNCHANGED << fleetVars, configVars, updates, taskVars, image_paths, image_files, notes_list,
                  audio_files, tts_attempt, tts_calls,
                  phase2Vars, webVars >>

\* ppt_processor.py 316-333: the Slide Records, one per aligned slide whose
\* image is a file
RECURSIVE final_data(_, _, _, _, _)
final_data(i, images, notes, results, on_disk) ==
  IF i > Len(images) THEN << >>
  ELSE IF images[i] \notin on_disk
       THEN final_data(i + 1, images, notes, results, on_disk)
  ELSE << [ slide_number |-> i, image_path |-> images[i], notes |-> notes[i],
            audio_path |-> results[i].audio_path,
            audio_duration |-> results[i].duration ] >>
       \o final_data(i + 1, images, notes, results, on_disk)

\* ppt_processor.py 298-341 and tasks.py 111-139: the end of phase 1; only here
\* does the task learn the path of the scratch directory
\* notes_exhausted that never lets the loop over the notes end
notes_exhausted_never(i, notes) == FALSE

\* ppt_processor.py 130: "for i, note in enumerate(notes_list)" has run out of notes
notes_exhausted(i, notes) == i > Len(notes)

Collate ==
  /\ pc = "audio"
  /\ notes_exhausted(idx, notes_list)
  /\ LET data == final_data(1, image_paths, notes_list, audio_results, image_files) IN
     IF Len(audio_results) # Len(notes_list)
     THEN /\ failure' = "RuntimeError"
          /\ pc' = "phase1_except"
          /\ UNCHANGED << updates, processed_data, temp_run_dir >>
     ELSE IF data = << >>
     THEN /\ updates' = Append(updates,
               Processing(STAGE_GENERATE_AUDIO, 100, "Audio generation complete"))
          /\ failure' = "ValueError"
          /\ pc' = "phase1_except"
          /\ UNCHANGED << processed_data, temp_run_dir >>
     ELSE /\ updates' = updates \o
               << Processing(STAGE_GENERATE_AUDIO, 100, "Audio generation complete"),
                  Processing(STAGE_PPT_PROCESSING, 45, "Presentation processing complete"),
                  Processing(STAGE_VIDEO_SYNTHESIS, 50, "") >>
          /\ processed_data' = data
          /\ temp_run_dir' = "task_run_dir"
          /\ pc' = "phase2"
          /\ UNCHANGED failure
  /\ UNCHANGED << fleetVars, configVars, scratch_exists, retval, phase1Vars, ttsVars, calls,
                  segment_files, segment_disk, seg_result, base_video, srt_exists,
                  final_video, asr_input, subtitles_generated, asr_errors_occurred,
                  webVars >>

\* tasks.py 124-131: the handler around process_presentation_for_task
Phase1Except ==
  /\ pc = "phase1_except"
  /\ updates' = Append(updates, FailureUpdate(STAGE_PPT_PROCESSING))
  /\ failure' = "RuntimeError"
  /\ pc' = "outer_except"
  /\ UNCHANGED << fleetVars, configVars, temp_run_dir, scratch_exists, retval, phase1Vars, ttsVars, calls,
                  phase2Vars, webVars >>

\* --------------------------------------- phase 2: synthesize_video_for_task
\* tasks.py 143-155 and video_synthesizer.py 583-617: output directory, segment
\* directory, the status writes that open the segment loop
Phase2Start ==
  /\ pc = "phase2"
  /\ \E mkdir_ok \in BOOLEAN :
       IF mkdir_ok
       THEN /\ updates' = updates \o
                 << Processing(STAGE_VIDEO_SYNTHESIS, 50, "Starting synthesis"),
                    Processing(STAGE_VIDEO_SEGMENTS, 52, "Creating segments") >>
            /\ segment_files' = << >>
            /\ idx' = 1
            /\ pc' = "segments"
            /\ UNCHANGED failure
       ELSE /\ updates' = Append(updates, FailureUpdate(STAGE_VIDEO_SYNTHESIS))
            /\ failure' = "RuntimeError"
            /\ pc' = "outer_except"
            /\ UNCHANGED << segment_files, idx >>
  /\ UNCHANGED << fleetVars, configVars, temp_run_dir, scratch_exists, retval, image_paths,
                  image_files, notes_list, audio_results, audio_files, probed, ttsVars,
                  calls, processed_data, segment_disk, seg_result, base_video, srt_exists,
                  final_video, asr_input, subtitles_generated, asr_errors_occurred,
                  webVars >>

\* What the muxer can do inside create_video_segment: the exit of step 1
\* (image to silent video), of step 2 (audio mux) and of the move that
\* replaces step 2 for a silent segment.
MuxerOutcomes == {"ok", "nonzero", "notfound", "raise"}
\* The outcomes the job is run against
JobSegmentOutcomes ==
  { [step1 |-> "ok", step2 |-> "ok", move |-> "ok"],
    [step1 |-> "nonzero", step2 |-> "ok", move |-> "ok"],
    [step1 |-> "ok", step2 |-> "nonzero", move |-> "raise"] }

\* A run of the muxer leaves (part of) the file it was told to write, unless
\* the executable could not be started
muxer_writes(exit) == exit # "notfound"

\* cleanup_after that deletes nothing
cleanup_after_nothing(step, exit, files) == files

\* video_synthesizer.py 325, 330-335 (step 1), 358-359, 364-371 (step 2),
\* 377-380 (move): the unlink calls on the way to "return False"
cleanup_after(step, exit, files) ==
  IF step = "step1"
  THEN IF exit = "notfound" THEN files ELSE [files EXCEPT !.temp = FALSE]
  ELSE IF step = "step2" /\ exit = "notfound" THEN [files EXCEPT !.temp = FALSE]
  ELSE [temp |-> FALSE, output |-> FALSE]

\* video_synthesizer.py 272-384: the result of create_video_segment and the
\* files it leaves: ok, output segment exists, intermediate silent video
\* exists, muxer invocations, segment has an audio track
create_video_segment(ffmpeg_path, image_is_file, duration, audio_is_valid, outcome) ==
  LET returns(ok, files, n, audio) ==
        [called |-> TRUE, ok |-> ok, output |-> files.output, temp |-> files.temp,
         muxer_calls |-> n, audio |-> audio]
      after1 == [temp |-> muxer_writes(outcome.step1), output |-> FALSE]
      after2 == [after1 EXCEPT !.output = muxer_writes(outcome.step2)]
  IN
  IF ffmpeg_path = None \/ ~image_is_file \/ duration <= 0
  THEN NoSegment
  ELSE IF outcome.step1 # "ok"
  THEN returns(FALSE, cleanup_after("step1", outcome.step1, after1), 1, FALSE)
  ELSE IF audio_is_valid
  THEN IF outcome.step2 = "ok"
       THEN returns(TRUE, [after2 EXCEPT !.temp = FALSE], 2, TRUE)
       ELSE returns(FALSE, cleanup_after("step2", outcome.step2, after2), 2, FALSE)
  ELSE IF outcome.move = "ok"
       THEN returns(TRUE, [temp |-> FALSE, output |-> TRUE], 1, FALSE)
       ELSE returns(FALSE, cleanup_after("move", outcome.move,
                                         [temp |-> TRUE, output |-> TRUE]), 1, FALSE)

\* video_synthesizer.py 632: the duration of the slide's segment
clip_duration(audio_duration) ==
  IF audio_duration > UsableThreshold THEN audio_duration ELSE DefaultSlideDuration

\* is_file answering False for the image of slide 1
is_file_first_lost(image_path_str) == image_path_str \in image_files /\ image_path_str # 1

\* video_synthesizer.py 625: Path(image_path_str).is_file()
is_file(image_path_str) == image_path_str \in image_files

\* audio_argument that hands over every audio file there is
audio_argument_always(audio_path, audio_duration) == audio_path

\* video_synthesizer.py 639: audio_path if audio_duration is not None and
\* audio_duration > 0.01 else None
audio_argument(audio_path, audio_duration) ==
  IF audio_duration > UsableThreshold THEN audio_path ELSE NoAudio

\* video_synthesizer.py 619-652: one iteration of the segment loop
BuildSegment ==
  /\ pc = "segments"
  /\ idx <= Len(processed_data)
  /\ LET data == processed_data[idx]
         slide_num == data.slide_number
         audio_path == IF data.audio_path # NoAudio /\ audio_files[data.audio_path] # "none"
                       THEN data.audio_path ELSE NoAudio
         passed == audio_argument(audio_path, data.audio_duration)
     IN
     IF ~is_file(data.image_path)
     THEN /\ idx' = idx + 1
          /\ UNCHANGED << updates, segment_files, segment_disk, seg_result, calls, pc >>
     ELSE \E outcome \in JobSegmentOutcomes :
          LET built == create_video_segment(get_tool_path("ffmpeg"), TRUE,
                         clip_duration(data.audio_duration),
                         passed # NoAudio /\ audio_files[passed] = "good", outcome)
          IN
          /\ seg_result' = built
          /\ calls' = [calls EXCEPT !["ffmpeg_segment"] = @ + built.muxer_calls]
          /\ IF built.ok
             THEN /\ segment_files' = Append(segment_files,
                       [ slide |-> slide_num,
                         duration |-> clip_duration(data.audio_duration),
                         audio |-> built.audio, passed |-> passed ])
                  /\ segment_disk' = segment_disk \cup {slide_num}
                  /\ updates' = Append(updates,
                       Processing(STAGE_VIDEO_SEGMENTS,
                                  52 + ((idx * 15) \div Len(processed_data)), ""))
                  /\ idx' = idx + 1
                  /\ UNCHANGED pc
             ELSE /\ updates' = Append(updates,
                       Processing(STAGE_VIDEO_SEGMENTS, NoProgress,
                                  "Error creating segment for slide"))
                  /\ pc' = "phase2_except"
                  /\ UNCHANGED << segment_files, segment_disk, idx >>
  /\ UNCHANGED << fleetVars, configVars, taskVars, image_paths, image_files, notes_list,
                  audio_results, audio_files, probed, ttsVars, processed_data,
                  base_video, srt_exists, final_video, asr_input, subtitles_generated,
                  asr_errors_occurred, webVars >>

\* A status write without a progress key
Note(stage, status) == Processing(stage, NoProgress, status)

\* video_synthesizer.py 387-458: what concatenate_videos writes to the backend
\* for an outcome of the muxer, up to its return
ConcatUpdates(ffmpeg_path, listed, outcome) ==
  LET start == << Processing(STAGE_VIDEO_CONCAT, 50, "Starting concatenation") >>
      running == Append(start, Processing(STAGE_VIDEO_CONCAT, 60, "Running FFmpeg concat"))
  IN
  IF ffmpeg_path = None THEN Append(start, Note(STAGE_VIDEO_CONCAT, "Error: ffmpeg not found"))
  ELSE IF listed = {} THEN Append(start, Note(STAGE_VIDEO_CONCAT, "Error: Concat list empty"))
  ELSE IF outcome = "nonzero"
  THEN Append(running, [ Note(STAGE_VIDEO_CONCAT, "Error: FFmpeg concat failed")
                           EXCEPT !.stderr = TRUE ])
  ELSE IF outcome = "notfound"
  THEN Append(running, Note(STAGE_VIDEO_CONCAT, "Error: ffmpeg not found"))
  ELSE IF outcome = "raise" THEN running
  ELSE Append(running, Processing(STAGE_VIDEO_CONCAT, 70, "Concatenation complete"))

\* video_synthesizer.py 387-458: the return value of concatenate_videos
concatenate_videos(ffmpeg_path, listed, outcome) ==
  ffmpeg_path # None /\ listed # {} /\ outcome = "ok"

\* video_synthesizer.py 655-677: the end of the segment loop, the
\* concatenation of the segments into the base video, the opening of step 3
Concat ==
  /\ pc = "segments"
  /\ idx > Len(processed_data)
  /\ IF segment_files = << >>
     THEN /\ updates' = Append(updates, Note(STAGE_VIDEO_SEGMENTS, "Error: No segments created"))
          /\ pc' = "phase2_except"
          /\ UNCHANGED << calls, base_video >>
     ELSE \E outcome \in MuxerOutcomes :
          LET ffmpeg_path == get_tool_path("ffmpeg")
              listed == { segment_files[i].slide : i \in 1..Len(segment_files) }
                          \cap segment_disk
              ran == ffmpeg_path # None /\ listed # {}
              success_concat == concatenate_videos(ffmpeg_path, listed, outcome)
          IN
          /\ calls' = IF ran THEN Invoke("ffmpeg_concat") ELSE calls
          /\ base_video' = success_concat
          /\ updates' = updates \o
               << Processing(STAGE_VIDEO_SEGMENTS, 67, "Segments created"),
                  Processing(STAGE_VIDEO_CONCAT, 68, "Concatenating segments") >>
               \o ConcatUpdates(ffmpeg_path, listed, outcome)
               \o ( IF success_concat
                    THEN << Processing(STAGE_VIDEO_CONCAT, 70, "Concatenation complete"),
                            Processing(STAGE_GENERATE_SUBTITLES, 72, "Generating subtitles (ASR)") >>
                    ELSE << Note(STAGE_VIDEO_CONCAT, "Error: FFmpeg concat failed") >> )
          /\ pc' = IF success_concat THEN "asr" ELSE "phase2_except"
  /\ UNCHANGED << fleetVars, configVars, taskVars, phase1Vars, ttsVars, processed_data, segment_files,
                  segment_disk, seg_result, srt_exists, final_video, asr_input,
                  subtitles_generated, asr_errors_occurred, webVars >>

\* audio_paths_for_asr without its filter: the clip name of every record
RECURSIVE audio_paths_for_asr_unfiltered(_)
audio_paths_for_asr_unfiltered(data) ==
  IF data = << >> THEN << >>
  ELSE << Head(data).slide_number >> \o audio_paths_for_asr_unfiltered(Tail(data))

\* audio_paths_for_asr collecting the clips last slide first
RECURSIVE audio_paths_for_asr_reversed(_)
audio_paths_for_asr_reversed(data) ==
  IF data = << >> THEN << >>
  ELSE audio_paths_for_asr_reversed(Tail(data))
       \o ( IF Head(data).audio_path # NoAudio /\ Head(data).audio_duration > UsableThreshold
            THEN << Head(data).audio_path >> ELSE << >> )

\* video_synthesizer.py 679: the audio paths handed to the transcriber
RECURSIVE audio_paths_for_asr(_)
audio_paths_for_asr(data) ==
  IF data = << >> THEN << >>
  ELSE ( IF Head(data).audio_path # NoAudio /\ Head(data).audio_duration > UsableThreshold
         THEN << Head(data).audio_path >> ELSE << >> )
       \o audio_paths_for_asr(Tail(data))

\* What the transcription step can meet: the recognizer library is missing,
\* the audio concatenation exits non-zero, the recognizer raises, the SRT it
\* writes has no cue, all is well, or a file disappears under the stat() of
\* line 94 and the error leaves generate_subtitles.
AsrOutcomes == {"unavailable", "concat_nonzero", "asr_raise", "srt_invalid", "ok", "escapes"}

\* video_synthesizer.py 75-267: what generate_subtitles writes to the backend
SubtitleUpdates(ffmpeg_path, valid_audio_files, outcome) ==
  LET start == << Processing(STAGE_GENERATE_SUBTITLES, 0, "Starting ASR") >>
      joining == Append(start,
                   Processing(STAGE_GENERATE_SUBTITLES, 5, "Concatenating audio for ASR"))
      loaded == joining \o
        << Processing(STAGE_GENERATE_SUBTITLES, 10, "Audio concatenated"),
           Processing(STAGE_GENERATE_SUBTITLES, 15, "Loading ASR model") >>
      heard == loaded \o
        << Processing(STAGE_GENERATE_SUBTITLES, 20, "Running ASR"),
           Processing(STAGE_GENERATE_SUBTITLES, 90, "ASR complete") >>
  IN
  IF outcome = "unavailable"
  THEN Append(start, Note(STAGE_GENERATE_SUBTITLES, "Error: stable-ts not available"))
  ELSE IF outcome = "escapes" THEN start
  ELSE IF valid_audio_files = << >>
  THEN Append(start, Processing(STAGE_GENERATE_SUBTITLES, 100, "No valid audio"))
  ELSE IF ffmpeg_path = None
  THEN Append(joining, Note(STAGE_GENERATE_SUBTITLES, "Error: ffmpeg not found"))
  ELSE IF outcome = "concat_nonzero"
  THEN Append(joining, Note(STAGE_GENERATE_SUBTITLES, "Error: Audio concatenation failed"))
  ELSE IF outcome = "asr_raise"
  THEN Append(loaded, Note(STAGE_GENERATE_SUBTITLES, "Error: ASR failed"))
  ELSE IF outcome = "srt_invalid"
  THEN Append(heard, Note(STAGE_GENERATE_SUBTITLES, "Error: SRT file invalid or empty"))
  ELSE heard \o
        << Processing(STAGE_GENERATE_SUBTITLES, 95, "SRT file generated"),
           Processing(STAGE_GENERATE_SUBTITLES, 100, "Subtitles generated successfully") >>

\* video_synthesizer.py 75-267: the return value of generate_subtitles
generate_subtitles(ffmpeg_path, valid_audio_files, outcome) ==
  valid_audio_files # << >> /\ ffmpeg_path # None /\ outcome = "ok"

\* video_synthesizer.py 679-706: step 3, the subtitle file
Asr ==
  /\ pc = "asr"
  /\ LET paths == audio_paths_for_asr(processed_data) IN
     /\ asr_input' = paths
     /\ IF paths = << >>
        THEN /\ updates' = Append(updates,
                  Processing(STAGE_GENERATE_SUBTITLES, 100, "Skipping ASR (no audio)"))
             /\ UNCHANGED << calls, srt_exists, subtitles_generated, asr_errors_occurred >>
        ELSE \E outcome \in AsrOutcomes :
             LET ffmpeg_path == get_tool_path("ffmpeg")
                 valid_audio_files == SelectSeq(paths, LAMBDA p : audio_files[p] = "good")
                 joined == outcome \notin {"unavailable", "escapes"}
                           /\ valid_audio_files # << >> /\ ffmpeg_path # None
                 heard == joined /\ outcome \in {"asr_raise", "srt_invalid", "ok"}
                 generated == generate_subtitles(ffmpeg_path, valid_audio_files, outcome)
             IN
             /\ updates' = updates \o SubtitleUpdates(ffmpeg_path, valid_audio_files, outcome)
             /\ calls' = [ calls EXCEPT !["ffmpeg_audio_concat"] = @ + (IF joined THEN 1 ELSE 0),
                                        !["whisper"] = @ + (IF heard THEN 1 ELSE 0) ]
             /\ subtitles_generated' = generated
             /\ srt_exists' = generated
             /\ asr_errors_occurred' = (outcome = "escapes")
  /\ pc' = "embed"
  /\ UNCHANGED << fleetVars, configVars, taskVars, phase1Vars, ttsVars, processed_data, segment_files,
                  segment_disk, seg_result, base_video, final_video, webVars >>

\* video_synthesizer.py 461-566: what add_subtitles writes to the backend
BurnUpdates(ffmpeg_path, input_is_file, srt_is_file, outcome) ==
  LET start == << Processing(STAGE_ADD_SUBTITLES, 90, "Starting subtitle embedding") >>
      running == Append(start, Processing(STAGE_ADD_SUBTITLES, 92, "Running FFmpeg subtitles"))
  IN
  IF ffmpeg_path = None THEN Append(start, Note(STAGE_ADD_SUBTITLES, "Error: ffmpeg not found"))
  ELSE IF ~input_is_file
  THEN Append(start, Note(STAGE_ADD_SUBTITLES, "Error: Input video not found"))
  ELSE IF ~srt_is_file
  THEN Append(start, Note(STAGE_ADD_SUBTITLES, "Error: SRT file not found"))
  ELSE IF outcome = "nonzero"
  THEN Append(running, [ Note(STAGE_ADD_SUBTITLES, "Error: FFmpeg subtitles failed")
                           EXCEPT !.stderr = TRUE ])
  ELSE IF outcome = "notfound"
  THEN Append(running, Note(STAGE_ADD_SUBTITLES, "Error: ffmpeg not found"))
  ELSE IF outcome = "raise"
  THEN Append(running, Note(STAGE_ADD_SUBTITLES, "Error: Adding subtitles failed"))
  ELSE Append(running, Processing(STAGE_ADD_SUBTITLES, 100, "Subtitles added successfully"))

\* video_synthesizer.py 461-566: the return value of add_subtitles
add_subtitles(ffmpeg_path, input_is_file, srt_is_file, outcome) ==
  ffmpeg_path # None /\ input_is_file /\ srt_is_file /\ outcome = "ok"

\* FileAfterBurn of a burner that leaves what the muxer wrote before it failed
FileAfterBurn_kept(ffmpeg_path, input_is_file, srt_is_file, outcome) ==
  IF ffmpeg_path = None \/ ~input_is_file \/ ~srt_is_file THEN "none"
  ELSE IF outcome = "ok" THEN "subtitled"
  ELSE IF muxer_writes(outcome) THEN "burn_partial"
  ELSE "none"

\* video_synthesizer.py 539-566: the file at output_video when add_subtitles
\* returns; after a non-zero exit and after an exception the file is unlinked
FileAfterBurn(ffmpeg_path, input_is_file, srt_is_file, outcome) ==
  IF ffmpeg_path = None \/ ~input_is_file \/ ~srt_is_file THEN "none"
  ELSE IF outcome = "ok" THEN "subtitled"
  ELSE IF outcome \in {"nonzero", "raise"} THEN "none"
  ELSE IF muxer_writes(outcome) THEN "burn_partial"
  ELSE "none"

\* shutil.move of the base video to the output path: it succeeds, or it raises
\* and leaves nothing or a partial copy at the destination
MoveOutcomes == {"ok", "raise_clean", "raise_partial"}

\* FileAfterMove of a move that reports success and leaves nothing at the target
FileAfterMove_lost(move) == "none"

\* The file at the output path after the move
FileAfterMove(move) ==
  CASE move = "ok" -> "unsubtitled"
    [] move = "raise_partial" -> "partial"
    [] OTHER -> "none"

\* video_synthesizer.py 706-764: step 4, the subtitled video or, failing that,
\* the base video moved to the output path
Embed ==
  /\ pc = "embed"
  /\ LET srt_is_valid == subtitles_generated /\ srt_exists IN
     \E outcome \in MuxerOutcomes, move \in MoveOutcomes :
       LET ffmpeg_path == get_tool_path("ffmpeg")
           success_sub == add_subtitles(ffmpeg_path, base_video, srt_exists, outcome)
           burned == ffmpeg_path # None /\ base_video /\ srt_exists
       IN
       IF srt_is_valid
       THEN /\ calls' = IF burned THEN Invoke("ffmpeg_subtitles") ELSE calls
            /\ IF success_sub
               THEN /\ move = "ok"
                    /\ final_video' = FileAfterBurn(ffmpeg_path, base_video, srt_exists, outcome)
                    /\ base_video' = FALSE
                    /\ srt_exists' = FALSE
                    /\ updates' = updates \o
                         << Processing(STAGE_ADD_SUBTITLES, 90, "Adding subtitles") >>
                         \o BurnUpdates(ffmpeg_path, base_video, srt_exists, outcome)
                         \o << Processing(STAGE_ADD_SUBTITLES, 100, "Subtitles added successfully") >>
                    /\ pc' = "success"
               ELSE /\ final_video' =
                         IF FileAfterMove(move) # "none" THEN FileAfterMove(move)
                         ELSE FileAfterBurn(ffmpeg_path, base_video, srt_exists, outcome)
                    /\ base_video' = (move # "ok")
                    /\ srt_exists' = IF move = "ok" THEN FALSE ELSE srt_exists
                    /\ updates' = updates \o
                         << Processing(STAGE_ADD_SUBTITLES, 90, "Adding subtitles") >>
                         \o BurnUpdates(ffmpeg_path, base_video, srt_exists, outcome)
                         \o << [ Note(STAGE_ADD_SUBTITLES, "Error: FFmpeg subtitles failed")
                                   EXCEPT !.stderr = TRUE ],
                               IF move = "ok"
                               THEN Processing(STAGE_ADD_SUBTITLES, 100,
                                      "Warning: Subtitles failed, saved video without subtitles")
                               ELSE Note(STAGE_ADD_SUBTITLES, "Error: Failed to move base video") >>
                    /\ pc' = IF move = "ok" THEN "success" ELSE "phase2_except"
       ELSE /\ outcome = "ok"
            /\ UNCHANGED calls
            /\ IF base_video
               THEN /\ final_video' = FileAfterMove(move)
                    /\ base_video' = (move # "ok")
                    /\ srt_exists' = IF move = "ok" THEN FALSE ELSE srt_exists
                    /\ updates' = updates \o
                         << Note(STAGE_ADD_SUBTITLES,
                                 IF asr_errors_occurred
                                 THEN "Error: ASR failed or SRT invalid, skipping subtitles"
                                 ELSE "Skipping subtitles (no valid SRT)"),
                            IF move = "ok"
                            THEN Processing(STAGE_ADD_SUBTITLES, 100, "Saved video without subtitles")
                            ELSE Note(STAGE_ADD_SUBTITLES, "Error: Failed to move base video") >>
                    /\ pc' = IF move = "ok" THEN "success" ELSE "phase2_except"
               ELSE /\ move = "ok"
                    /\ updates' = updates \o
                         << Note(STAGE_ADD_SUBTITLES,
                                 IF asr_errors_occurred
                                 THEN "Error: ASR failed or SRT invalid, skipping subtitles"
                                 ELSE "Skipping subtitles (no valid SRT)"),
                            Note(STAGE_ADD_SUBTITLES, "Fatal Error: Base video not found") >>
                    /\ pc' = "phase2_except"
                    /\ UNCHANGED << final_video, base_video, srt_exists >>
  /\ UNCHANGED << fleetVars, configVars, taskVars, phase1Vars, ttsVars, processed_data, segment_files,
                  segment_disk, seg_result, asr_input, subtitles_generated,
                  asr_errors_occurred, webVars >>

\* Phase2Except with the test "if not synthesis_success: raise" left out
Phase2Except_swallowed ==
  /\ pc = "phase2_except"
  /\ pc' = "success"
  /\ UNCHANGED << fleetVars, configVars, updates, taskVars, phase1Vars, ttsVars, calls, phase2Vars,
                  webVars >>

\* tasks.py 169-181: synthesize_video_for_task returned False
Phase2Except ==
  /\ pc = "phase2_except"
  /\ updates' = Append(updates, FailureUpdate(STAGE_VIDEO_SYNTHESIS))
  /\ failure' = "RuntimeError"
  /\ pc' = "outer_except"
  /\ UNCHANGED << fleetVars, configVars, temp_run_dir, scratch_exists, retval, phase1Vars, ttsVars, calls,
                  phase2Vars, webVars >>

\* tasks.py 154: f"{pptx_filepath.stem}_{task_id[:8]}.mp4"
final_video_filename == "stem_taskid08.mp4"

\* tasks.py 184-212: the custom state that announces the output, then return
Success ==
  /\ pc = "success"
  /\ updates' = Append(updates,
       [ U(STAGE_COMPLETE, STAGE_COMPLETE, 100, "") EXCEPT !.output_path = final_video_filename ])
  /\ retval' = final_video_filename
  /\ pc' = "finally"
  /\ UNCHANGED << fleetVars, configVars, temp_run_dir, scratch_exists, failure, phase1Vars, ttsVars, calls,
                  phase2Vars, webVars >>

\* ------------------------------------------------------ status query: app.py
EmptyMeta == U("", "", NoProgress, "")

\* app.py 386-439: the JSON answer of /tasks/<task_id>/status for the job.
\* task_result_obj.info is the stored meta for a state written by update_state
\* and the return value or the exception once the worker stored the outcome.
\* app.py 399-408: the meta of the answer, from the stored state and info
custom_meta(state, info) ==
  IF state = "PENDING" THEN EmptyMeta
  ELSE IF info.is_dict THEN [info EXCEPT !.state = ""]
  ELSE IF state = "FAILURE"
  THEN [EmptyMeta EXCEPT !.error = TRUE, !.traceback = TRUE]
  ELSE EmptyMeta

get_task_status ==
  LET meta == custom_meta(task_state, task_info)
      final_result_filename == output_video_filename
  IN
  IF task_state = "SUCCESS" \/ task_state = "COMPLETE"
  THEN IF final_result_filename # None
       THEN [ state |-> task_state, has_result |-> TRUE, has_download_url |-> TRUE,
              has_error |-> FALSE, meta |-> meta ]
       ELSE [ state |-> "FAILURE", has_result |-> FALSE, has_download_url |-> FALSE,
              has_error |-> TRUE, meta |-> [meta EXCEPT !.error = TRUE] ]
  ELSE [ state |-> task_state, has_result |-> FALSE, has_download_url |-> FALSE,
         has_error |-> FALSE, meta |-> meta ]

\* One poll of the status endpoint by the job's owner once the worker has
\* left the task (the answer to a poll in any other state is get_task_status
\* evaluated in that state)
GetStatus ==
  /\ pc = "done"
  /\ response' = get_task_status
  /\ UNCHANGED << pc, fleetVars, configVars, updates, taskVars, phase1Vars, ttsVars, calls,
                  phase2Vars, output_video_filename >>

\* tasks.py 214-248: the handler of every exception of the task body.  The
\* handler reads self.request.get_current_task().info, an attribute Celery's
\* request context may not provide: the read either raises (the exception then
\* replaces the one being handled and no status is written) or yields the
\* stored meta, which is written back with the error detail added.
OuterExcept ==
  /\ pc = "outer_except"
  /\ \E info_read \in {"raises", "meta"} :
       IF info_read = "raises"
       THEN /\ failure' = "AttributeError"
            /\ UNCHANGED updates
       ELSE /\ updates' = Append(updates,
                 IF task_info.stage # ""
                 THEN [ task_info EXCEPT !.state = "FAILURE", !.error = TRUE,
                                         !.traceback = TRUE ]
                 ELSE FailureUpdate("Unhandled Error"))
            /\ UNCHANGED failure
  /\ pc' = "finally"
  /\ UNCHANGED << fleetVars, configVars, temp_run_dir, scratch_exists, retval, phase1Vars, ttsVars, calls,
                  phase2Vars, webVars >>

\* tasks.py 251-266: the finally block
Finally ==
  /\ pc = "finally"
  /\ updates' = Append(updates, Processing(STAGE_CLEANUP, 98, ""))
  /\ IF cleanup_temp /\ temp_run_dir # None /\ scratch_exists
     THEN \* shutil.rmtree: the directory and the files the job kept in it
          /\ scratch_exists' = FALSE
          /\ image_files' = {}
          /\ audio_files' = [n \in DOMAIN audio_files |-> "none"]
          /\ segment_disk' = {}
          /\ base_video' = FALSE
          /\ srt_exists' = FALSE
     ELSE UNCHANGED << scratch_exists, image_files, audio_files, segment_disk,
                       base_video, srt_exists >>
  /\ pc' = "leaving"
  /\ UNCHANGED << fleetVars, configVars, temp_run_dir, failure, retval, image_paths, notes_list,
                  audio_results, probed, idx, ttsVars, calls, processed_data,
                  segment_files, seg_result, final_video, asr_input,
                  subtitles_generated, asr_errors_occurred, webVars >>

\* The worker stores the outcome of the task function: SUCCESS with the return
\* value as result, or FAILURE with the exception as result and its traceback.
TaskLeaves ==
  /\ pc = "leaving"
  /\ updates' = Append(updates,
       IF failure = ""
       THEN [ U("SUCCESS", "", NoProgress, "") EXCEPT !.is_dict = FALSE,
                                                      !.output_path = retval ]
       ELSE [ U("FAILURE", "", NoProgress, "") EXCEPT !.is_dict = FALSE,
                                                      !.error = TRUE,
                                                      !.traceback = TRUE ])
  /\ pc' = "done"
  /\ UNCHANGED << fleetVars, configVars, taskVars, phase1Vars, ttsVars, calls,
                  phase2Vars, webVars >>

Next ==
  \/ TaskStart
  \/ Prepare
  \/ Phase1Start
  \/ ExportSlides
  \/ ExtractNotes
  \/ AlignSlides
  \/ AudioSegment
  \/ TtsEnter
  \/ TtsAttempt
  \/ AudioResult
  \/ Collate
  \/ Phase1Except
  \/ Phase2Start
  \/ BuildSegment
  \/ Concat
  \/ Asr
  \/ Embed
  \/ Phase2Except
  \/ Success
  \/ OuterExcept
  \/ Finally
  \/ TaskLeaves
  \/ GetStatus

Spec == Init /\ [][Next]_vars

\* The steps of the worker that runs the task function.  A worker that has
\* pulled the job executes it on one thread until the function returns or
\* raises, so a step it can take is taken; nothing obliges a client to poll.
WorkerStep == pc # "done" /\ Next

LiveSpec == Spec /\ WF_vars(WorkerStep)

\* --------------------------------------- create_video_segment on its own
\* One call of create_video_segment with any image, duration and audio, against
\* every exit of the muxer
SegmentCalls ==
  [ image_is_file : BOOLEAN, duration : {-1, 0, 2100}, audio_is_valid : BOOLEAN,
    outcome : [step1 : MuxerOutcomes, step2 : MuxerOutcomes, move : {"ok", "raise"}] ]

SegInit ==
  /\ voice_id = "zh-CN-XiaoxiaoNeural"
  /\ pptx_is_file = TRUE
  /\ tts_retries = 0
  /\ cleanup_temp = TRUE
  /\ paths_cfg = [t \in Tools |-> t]
  /\ on_path \in {Tools, Tools \ {"ffmpeg"}}
  /\ platform_system = "Linux"
  /\ mac_soffice = FALSE
  /\ NothingRun
  /\ JobsIdle
  /\ SubmitIdle
  /\ located = << >>
  /\ seg_args \in SegmentCalls
  /\ concat_io = NoConcatCall
  /\ call_io = NoCall

\* video_synthesizer.py 272-384
CreateSegment ==
  /\ ~seg_result.called
  /\ seg_result' = create_video_segment(get_tool_path("ffmpeg"), seg_args.image_is_file,
                                           seg_args.duration, seg_args.audio_is_valid,
                                           seg_args.outcome)
  /\ UNCHANGED << pc, configVars, updates, taskVars, phase1Vars, ttsVars, calls,
                  processed_data, segment_files, segment_disk, base_video, srt_exists,
                  final_video, asr_input, subtitles_generated, asr_errors_occurred,
                  webVars, fleetVars >>

SegSpec == SegInit /\ [][CreateSegment]_vars

\* ----------------------------------------- concatenate_videos on its own
\* One call of concatenate_videos with any list of segment paths, any of which
\* may have vanished from the disk, against every exit of the muxer
MaxSegments == 3

\* The lists of segment paths the call is made with
SegmentLists ==
  { << >> } \cup { [ i \in 1..n |-> i ] : n \in 1..MaxSegments }
            \cup { [ i \in 1..n |-> n + 1 - i ] : n \in 2..MaxSegments }

\* listed_segments that skips nothing
listed_segments_all(video_file_paths, on_disk) == video_file_paths

\* video_synthesizer.py 408-414: the lines written to the playlist, one per
\* path that is a file
listed_segments(video_file_paths, on_disk) ==
  SelectSeq(video_file_paths, LAMBDA video_file : video_file \in on_disk)

\* the finally block leaving the playlist where it is
playlist_after_finally_kept(list_file) == list_file

\* video_synthesizer.py 455-458: finally: if concat_list_file.exists(): unlink
playlist_after_finally(list_file) == FALSE

\* video_synthesizer.py 387-458: the return value of concatenate_videos and
\* the files it leaves
concatenate_videos_io(ffmpeg_path, video_file_paths, on_disk, exit) ==
  LET returns(ok, lines, list_file, output, n) ==
        [ video_file_paths |-> video_file_paths, on_disk |-> on_disk, exit |-> exit,
          returned |-> IF ok THEN "true" ELSE "false", playlist |-> lines,
          list_file |-> list_file, output |-> output, muxer_calls |-> n ]
      lines == listed_segments(video_file_paths, on_disk)
  IN
  IF video_file_paths = << >> \/ ffmpeg_path = None
  THEN returns(FALSE, << >>, FALSE, FALSE, 0)
  ELSE IF lines = << >>
  THEN returns(FALSE, lines, playlist_after_finally(FALSE), FALSE, 0)
  ELSE IF exit = "ok"
  THEN returns(TRUE, lines, playlist_after_finally(TRUE), TRUE, 1)
  ELSE IF exit = "notfound"
  THEN returns(FALSE, lines, playlist_after_finally(TRUE), FALSE, 1)
  ELSE \* 439 and 452: if output_path.exists(): output_path.unlink
       returns(FALSE, lines, playlist_after_finally(TRUE), FALSE, 1)

ConcatInit ==
  /\ voice_id = "zh-CN-XiaoxiaoNeural"
  /\ pptx_is_file = TRUE
  /\ tts_retries = 0
  /\ cleanup_temp = TRUE
  /\ paths_cfg = [t \in Tools |-> t]
  /\ on_path \in {Tools, Tools \ {"ffmpeg"}}
  /\ platform_system = "Linux"
  /\ mac_soffice = FALSE
  /\ NothingRun
  /\ JobsIdle
  /\ SubmitIdle
  /\ located = << >>
  /\ seg_args = NoSegmentCall
  /\ concat_io \in { [ NoConcatCall EXCEPT !.video_file_paths = l, !.on_disk = d, !.exit = e ] :
                       l \in SegmentLists, d \in SUBSET (1..MaxSegments), e \in MuxerOutcomes }
  /\ call_io = NoCall

\* video_synthesizer.py 387-458
ConcatenateVideos ==
  /\ concat_io.returned = "none"
  /\ concat_io' = concatenate_videos_io(get_tool_path("ffmpeg"), concat_io.video_file_paths,
                                        concat_io.on_disk, concat_io.exit)
  /\ UNCHANGED << taskState, jobVars, submitVars, located, seg_args, call_io >>

ConcatSpec == ConcatInit /\ [][ConcatenateVideos]_vars

\* ------------------------------------- generate_audio_segment on its own
\* One call of generate_audio_segment(voice_id, text, output_path, ...) with any
\* voice id and any text, as a caller other than the loop of phase 1 can make it
TtsInit ==
  /\ voice_id \in {"zh-CN-XiaoxiaoNeural", "zh-CN-YunxiNeural", "en-US-JennyNeural",
                   "xx-XX-NoSuchNeural", ""}
  /\ pptx_is_file = TRUE
  /\ tts_retries \in 0..MaxRetries
  /\ cleanup_temp = TRUE
  /\ paths_cfg = [t \in Tools |-> t]
  /\ on_path = Tools
  /\ platform_system = "Linux"
  /\ mac_soffice = FALSE
  /\ pc = "tts_enter"
  /\ updates = << >>
  /\ temp_run_dir = None
  /\ scratch_exists = FALSE
  /\ failure = ""
  /\ retval = None
  /\ image_paths = << >>
  /\ image_files = {}
  /\ notes_list \in { << text >> : text \in {"", " ", "note", "two notes"} }
  /\ audio_results = << >>
  /\ audio_files = [n \in 1..MaxSlides |-> "none"]
  /\ probed = [n \in 1..MaxSlides |-> NotProbed]
  /\ idx = 1
  /\ tts_attempt = 0
  /\ tts_calls = 0
  /\ tts_result = "none"
  /\ calls = [t \in External |-> 0]
  /\ processed_data = << >>
  /\ segment_files = << >>
  /\ segment_disk = {}
  /\ seg_result = Unbuilt
  /\ base_video = FALSE
  /\ srt_exists = FALSE
  /\ final_video = "none"
  /\ asr_input = << >>
  /\ subtitles_generated = FALSE
  /\ asr_errors_occurred = FALSE
  /\ output_video_filename = None
  /\ response = NoResponse
  /\ FleetIdle

TtsNext == TtsEnter \/ TtsAttempt

TtsSpec == TtsInit /\ [][TtsNext]_vars

\* ------------------------------------------- the tool locator on its own
\* get_tool_path called again and again with the configuration and the file
\* system left as they are
MaxLocates == 2

\* What [Paths] <tool>_path can hold besides the name of the tool
ConfiguredPath(t) ==
  CASE t = "soffice" -> "/opt/bin/soffice"
    [] t = "ffmpeg" -> "/opt/bin/ffmpeg"
    [] t = "ffprobe" -> "/opt/bin/ffprobe"

LocateInit ==
  /\ voice_id = "zh-CN-XiaoxiaoNeural"
  /\ pptx_is_file = TRUE
  /\ tts_retries = 0
  /\ cleanup_temp = TRUE
  /\ paths_cfg \in [Tools -> Tools \cup { ConfiguredPath(t) : t \in Tools } \cup {NoEntry}]
  /\ \A t \in Tools : paths_cfg[t] \in {t, ConfiguredPath(t), NoEntry}
  /\ on_path \in SUBSET (Tools \cup { ConfiguredPath(t) : t \in Tools })
  /\ platform_system \in {"Linux", "Darwin"}
  /\ mac_soffice \in BOOLEAN
  /\ NothingRun
  /\ JobsIdle
  /\ SubmitIdle
  /\ located = << >>
  /\ seg_args = NoSegmentCall
  /\ concat_io = NoConcatCall
  /\ call_io = NoCall

\* utils.py 18-60: one call; it reads the configuration, the PATH and the
\* file system, writes log lines and returns
Locate(tool_name) ==
  /\ Len(located) < MaxLocates
  /\ located' = Append(located, [tool |-> tool_name, path |-> get_tool_path(tool_name)])
  /\ UNCHANGED << taskState, jobVars, submitVars, seg_args, concat_io, call_io >>

LocateNext == \E tool_name \in Tools : Locate(tool_name)

LocateSpec == LocateInit /\ [][LocateNext]_vars

\* --------------------------------------------------- the upload page: app.py
\* File names are the sequences of their characters
FileNames == { << >>, << "d" >>, << "d", ".", "p", "p", "t", "x" >>,
               << "d", ".", "P", "P", "T", "X" >>, << "d", ".", "t", "x", "t" >> }

\* str.lower() on the characters that occur
lower(c) == CASE c = "P" -> "p" [] c = "T" -> "t" [] c = "X" -> "x" [] OTHER -> c

\* filename.rsplit('.', 1)[1]: the characters behind the last dot
RECURSIVE rsplit_ext(_)
rsplit_ext(filename) ==
  IF filename = << >> THEN << >>
  ELSE IF filename[Len(filename)] = "." THEN << >>
  ELSE rsplit_ext(SubSeq(filename, 1, Len(filename) - 1)) \o << filename[Len(filename)] >>

\* app.py 56
ALLOWED_EXTENSIONS == { << "p", "p", "t", "x" >> }

\* app.py 128-130
allowed_file(filename) ==
  /\ \E i \in 1..Len(filename) : filename[i] = "."
  /\ [ i \in 1..Len(rsplit_ext(filename)) |-> lower(rsplit_ext(filename)[i]) ] \in ALLOWED_EXTENSIONS

\* tasks.py 58: the parameters of convert_ppt_to_video_task behind self
task_parameters == << "pptx_filepath_str", "output_dir_str", "voice_id" >>

\* Binding a positional argument list to the parameters of the task function
bind(args) == IF Len(args) = Len(task_parameters) THEN "bound" ELSE "TypeError"

\* app.py 245-246: the voice of the form, or the first voice of the list
chosen_voice(req) ==
  IF req.voice_id = "" /\ req.voices_available THEN "zh-CN-XiaoxiaoNeural" ELSE req.voice_id

\* app.py 271-277: args=[filepath, output dir, voice_id, new_task_record.id, current_user.id]
apply_async_args(req) ==
  << "filepath", "FLASK_OUTPUT_BASE_DIR", chosen_voice(req), "new_task_record.id",
     "current_user.id" >>

Requests ==
  [ celery_available : BOOLEAN, can_create : BOOLEAN, has_file : BOOLEAN,
    filename : FileNames, voice_id : {"", "zh-CN-YunxiNeural"},
    voices_available : BOOLEAN, typing : BOOLEAN ]

SubmitInit ==
  /\ TaskQueued
  /\ voice_id = "zh-CN-XiaoxiaoNeural"
  /\ pptx_is_file
  /\ tts_retries = 0
  /\ cleanup_temp
  /\ on_path = Tools
  /\ JobsIdle
  /\ submit_req \in Requests
  /\ submit_out = NoAnswer
  /\ delivery = "none"
  /\ located = << >>
  /\ seg_args = NoSegmentCall
  /\ concat_io = NoConcatCall
  /\ call_io = NoCall

\* app.py 203-304: the POST branch of index.  Task.apply_async checks the
\* argument list against the signature of the task when the task's typing
\* attribute is set and raises TypeError in the caller; otherwise the message
\* is published as it is.
Submit ==
  /\ submit_out.http = "none"
  /\ LET req == submit_req IN
     submit_out' =
       IF ~req.celery_available THEN [NoAnswer EXCEPT !.http = "unavailable"]
       ELSE IF ~req.can_create THEN [NoAnswer EXCEPT !.http = "limit_reached"]
       ELSE IF ~req.has_file THEN [NoAnswer EXCEPT !.http = "no_file"]
       ELSE IF req.filename = << >> THEN [NoAnswer EXCEPT !.http = "invalid_name"]
       ELSE IF ~allowed_file(req.filename) THEN [NoAnswer EXCEPT !.http = "type_not_allowed"]
       ELSE IF chosen_voice(req) = ""
            THEN [NoAnswer EXCEPT !.http = "no_voice", !.saved = TRUE]
       ELSE IF req.typing /\ bind(apply_async_args(req)) = "TypeError"
            THEN [NoAnswer EXCEPT !.http = "start_failed", !.saved = TRUE,
                                  !.record = "deleted"]
       ELSE [ http |-> "redirect_task_status", saved |-> TRUE, record |-> "PENDING",
              args |-> apply_async_args(req), job_id |-> "celery_task_obj.id" ]
  /\ UNCHANGED << taskState, jobVars, located, seg_args, concat_io, call_io, submit_req, delivery >>

\* The worker takes the message and calls the task function with its arguments
Deliver ==
  /\ submit_out.job_id # "none"
  /\ delivery = "none"
  /\ delivery' = bind(submit_out.args)
  /\ UNCHANGED << taskState, jobVars, located, seg_args, concat_io, call_io, submit_req, submit_out >>

SubmitNext == Submit \/ Deliver

SubmitSpec == SubmitInit /\ [][SubmitNext]_vars

\* ------------------------------------------- two jobs on separate workers
\* The names the jobs give to their scratch directory and to their output file,
\* and what the jobs do to the directories they name.  A name is the sequence
\* of its characters.

\* tasks.py 154: task_id[:8]
TaskIdChars == 8
\* ppt_processor.py 210: uuid.uuid4().hex[:8]
RunIdChars == 8

\* Python s[:n]
Prefix(s, n) == SubSeq(s, 1, Min(n, Len(s)))

\* Identifiers as uuid4 draws them, cut down to the characters the program
\* keeps and one character behind them
Uuids == { << x, "0", "0", "0", "0", "0", "0", "0", y >> : x, y \in {"a", "b"} }

\* pptx_filepath.stem of the documents d_1.pptx and d.1.pptx
Stems == { << "d", "_", "1" >>, << "d", ".", "1" >> }

\* str.isalnum() on the characters that occur
Alnum == {"a", "b", "d", "0", "1"}

\* ppt_processor.py 211: c if c.isalnum() or c in ('-', '_') else '_'
safe_stem(stem) ==
  [ i \in 1..Len(stem) |-> IF stem[i] \in Alnum \/ stem[i] \in {"-", "_"} THEN stem[i] ELSE "_" ]

\* ppt_processor.py 212: temp_base_dir / f"task_{run_id}_{safe_stem}"
temp_run_dir_name(run_id, stem) ==
  << "t", "a", "s", "k", "_" >> \o run_id \o << "_" >> \o safe_stem(stem)

\* tasks.py 154: f"{pptx_filepath.stem}_{task_id[:8]}.mp4"
output_filename(stem, task_id) ==
  stem \o << "_" >> \o Prefix(task_id, TaskIdChars) \o << ".", "m", "p", "4" >>

JobsInit ==
  /\ TaskQueued
  /\ voice_id = "zh-CN-XiaoxiaoNeural"
  /\ pptx_is_file
  /\ tts_retries = 0
  /\ cleanup_temp
  /\ on_path = Tools
  /\ job_args \in [Jobs -> [task_id : Uuids, stem : Stems]]
  /\ job_pc = [j \in Jobs |-> "queued"]
  /\ job_dir = [j \in Jobs |-> << >>]
  /\ job_out = [j \in Jobs |-> << >>]
  /\ job_result = [j \in Jobs |-> "none"]
  /\ disk = {}
  /\ out_files = {}
  /\ SubmitIdle
  /\ located = << >>
  /\ seg_args = NoSegmentCall
  /\ concat_io = NoConcatCall
  /\ call_io = NoCall

\* ppt_processor.py 209-219: run_id is drawn, the scratch directory is named
\* and created with mkdir(parents=True, exist_ok=True)
JobScratch(j) ==
  /\ job_pc[j] = "queued"
  /\ \E uuid \in Uuids :
       job_dir' = [job_dir EXCEPT ![j] =
                     temp_run_dir_name(Prefix(uuid, RunIdChars), job_args[j].stem)]
  /\ job_pc' = [job_pc EXCEPT ![j] = "phase1"]
  /\ UNCHANGED << taskState, submitVars, located, seg_args, concat_io, call_io, job_args, job_out, job_result, disk, out_files >>

\* ppt_processor.py 221-341: the images and the audio clips are written under
\* the scratch directory; a failure of phase 1 leaves the task through its
\* handlers with temp_run_dir unassigned
JobPhase1(j) ==
  /\ job_pc[j] = "phase1"
  /\ \E ok \in BOOLEAN :
       IF ok
       THEN /\ disk' = disk \cup { << job_dir[j], j >> }
            /\ job_pc' = [job_pc EXCEPT ![j] = "phase2"]
            /\ UNCHANGED job_result
       ELSE /\ job_result' = [job_result EXCEPT ![j] = "failed"]
            /\ job_pc' = [job_pc EXCEPT ![j] = "done"]
            /\ UNCHANGED disk
  /\ UNCHANGED << taskState, submitVars, located, seg_args, concat_io, call_io, job_args, job_dir, job_out, out_files >>

\* tasks.py 154-181 and video_synthesizer.py 619-764: phase 2 reads the job's
\* images and clips and, when they are there, leaves the video under the
\* output name
JobPhase2(j) ==
  /\ job_pc[j] = "phase2"
  /\ LET name == output_filename(job_args[j].stem, job_args[j].task_id) IN
     /\ job_out' = [job_out EXCEPT ![j] = name]
     /\ IF << job_dir[j], j >> \in disk
        THEN /\ out_files' = { f \in out_files : f[1] # name } \cup { << name, j >> }
             /\ job_result' = [job_result EXCEPT ![j] = "ok"]
        ELSE /\ job_result' = [job_result EXCEPT ![j] = "failed"]
             /\ UNCHANGED out_files
  /\ job_pc' = [job_pc EXCEPT ![j] = "cleanup"]
  /\ UNCHANGED << taskState, submitVars, located, seg_args, concat_io, call_io, job_args, job_dir, disk >>

\* tasks.py 251-266: shutil.rmtree(temp_run_dir)
JobCleanup(j) ==
  /\ job_pc[j] = "cleanup"
  /\ disk' = IF cleanup_temp THEN { f \in disk : f[1] # job_dir[j] } ELSE disk
  /\ job_pc' = [job_pc EXCEPT ![j] = "done"]
  /\ UNCHANGED << taskState, submitVars, located, seg_args, concat_io, call_io, job_args, job_dir, job_out, job_result, out_files >>

JobsNext ==
  \E j \in Jobs :
     \/ JobScratch(j)
     \/ JobPhase1(j)
     \/ JobPhase2(j)
     \/ JobCleanup(j)

JobsSpec == JobsInit /\ [][JobsNext]_vars

\* ============================================================== properties
\* The job has ended: the worker stored the outcome of the task function.
Ended == pc = "done"
Succeeded == Ended /\ task_state = "SUCCESS"
Failed == Ended /\ task_state = "FAILURE"

\* The worker is on its way out with an error: inside one of the handlers, or
\* in the finally block or behind it with an exception propagating.
OnFailurePath ==
  \/ pc \in {"phase1_except", "phase2_except", "outer_except"}
  \/ (pc \in {"finally", "leaving", "done"} /\ failure # "")

\* The Slide Records of slide n
RecordsOf(n) ==
  { processed_data[j] : j \in { i \in 1..Len(processed_data) :
                                  processed_data[i].slide_number = n } }

\* ----------------------------------------------------------------------- C1
\* C1: whenever a job has ended, successfully or not, and cleanup is enabled
\* in the configuration, the job's scratch directory has been deleted.
C1_CleanupAlwaysRuns == (Ended /\ cleanup_temp) => ~scratch_exists

\* ----------------------------------------------------------------------- C2
\* The steps in which one of the fatal stages fails
RenderingFails == pc = "export" /\ image_paths' = << >>
NotesExtractionFails == pc = "notes" /\ failure' # ""
SegmentBuildFails == pc = "segments" /\ seg_result'.called /\ ~seg_result'.ok
ConcatenationFails ==
  /\ pc = "segments"
  /\ idx > Len(processed_data)
  /\ segment_files # << >>
  /\ ~base_video'

\* The tools of the stages after phase 1, after the segments, after concatenation
AfterPhase1 == External \ {"soffice", "pdf2image"}
AfterSegments == {"ffmpeg_concat", "ffmpeg_audio_concat", "whisper", "ffmpeg_subtitles"}
AfterConcat == {"ffmpeg_audio_concat", "whisper", "ffmpeg_subtitles"}

C2_Step ==
  /\ (RenderingFails \/ NotesExtractionFails \/ SegmentBuildFails \/ ConcatenationFails)
       => (OnFailurePath' /\ final_video' = "none")
  /\ (RenderingFails \/ NotesExtractionFails) => \A t \in AfterPhase1 : calls'[t] = 0
  /\ SegmentBuildFails => \A t \in AfterSegments : calls'[t] = 0
  /\ ConcatenationFails => \A t \in AfterConcat : calls'[t] = 0
  /\ OnFailurePath =>
       /\ OnFailurePath'
       /\ UNCHANGED << calls, notes_list, audio_results, processed_data, segment_files,
                       asr_input, subtitles_generated, final_video, retval >>
  /\ (OnFailurePath /\ pc' = "done") => (task_state' = "FAILURE" /\ retval' = None)

\* C2: a step in which slide rendering, notes extraction, the build of a
\* slide's segment or the concatenation fails puts the worker on the failure
\* path with no file at the output path and no tool of a later stage invoked;
\* the failure path is never left, invokes no tool, changes no stage result and
\* no output file, and ends with the job stored as FAILURE and nothing returned.
C2_FatalStageFailsJob == [][C2_Step]_vars

\* A job that ended Failed because the segment of its second slide could not
\* be built, after the first one was: no concatenation, no output video.
C2_Witness ==
  /\ Failed
  /\ seg_result.called /\ ~seg_result.ok
  /\ Len(segment_files) = 1
  /\ calls["ffmpeg_concat"] = 0
  /\ final_video = "none"

\* ----------------------------------------------------------------------- C3
C3_Step ==
  (pc = "tts_return" /\ tts_result = "false") =>
     /\ pc' = "audio"
     /\ failure' = ""
     /\ idx' = idx + 1
     /\ audio_results' = Append(audio_results, [audio_path |-> NoAudio, duration |-> 0])

C3_EverySlideVisited == (pc = "audio") => Len(audio_results) = idx - 1

C3_SilentSegment ==
  \A k \in 1..Len(segment_files) :
    \A d \in RecordsOf(segment_files[k].slide) :
      d.audio_path = NoAudio =>
        (segment_files[k].duration = DefaultSlideDuration /\ ~segment_files[k].audio)

\* C3: when generate_audio_segment returns failure for a slide, the loop goes
\* on to the next slide with no exception raised and the slide's entry is
\* (no audio, duration 0); the loop visits every slide; and the segment of a
\* slide without audio is silent and has the default duration.
C3_SynthesisFailureDegrades ==
  [][C3_Step]_vars /\ [](C3_EverySlideVisited /\ C3_SilentSegment)

\* A job that Succeeded although the synthesis of its first slide's note
\* failed with a known voice: that slide has a silent segment of the default
\* duration, the second slide was synthesized, the output video exists.
C3_Witness ==
  /\ Succeeded
  /\ voice_id \in KNOWN_EDGE_VOICES
  /\ Len(processed_data) = 2
  /\ processed_data[1].notes = "note" /\ processed_data[1].audio_path = NoAudio
  /\ processed_data[1].audio_duration = 0
  /\ processed_data[2].audio_path # NoAudio
  /\ Len(segment_files) = 2
  /\ segment_files[1].duration = DefaultSlideDuration /\ ~segment_files[1].audio
  /\ final_video # "none"

\* ----------------------------------------------------------------------- C4
\* The transcriber was given audio and produced no subtitle file
TranscriptionFailed == asr_input # << >> /\ ~subtitles_generated
\* The muxer was run to burn the subtitles in and no subtitled video came out
EmbeddingFailed == calls["ffmpeg_subtitles"] > 0 /\ final_video # "subtitled"

\* C4 (as stated): once concatenation has succeeded, a failure of
\* transcription or of embedding never fails the job: it ends Succeeded with
\* the un-subtitled concatenated video at the output path.
C4_DegradedNeverFails ==
  (Ended /\ (TranscriptionFailed \/ EmbeddingFailed)) =>
     (Succeeded /\ final_video = "unsubtitled")

\* C4 (amended): after a failure of transcription or of embedding the job
\* ends Succeeded exactly when the base video was moved to the output path,
\* and then the output file is the un-subtitled concatenated video; when that
\* move fails the job ends Failed and no complete video is at the output path.
C4_DegradedUnlessMoveFails ==
  (Ended /\ (TranscriptionFailed \/ EmbeddingFailed)) =>
     IF final_video = "unsubtitled"
     THEN Succeeded
     ELSE Failed /\ final_video \in {"none", "partial"}

\* A job that Succeeded with the un-subtitled video after the muxer failed to
\* burn in the subtitles the transcriber had produced.
C4_Witness ==
  /\ Succeeded
  /\ subtitles_generated
  /\ EmbeddingFailed
  /\ final_video = "unsubtitled"

\* ----------------------------------------------------------------------- C5
C5_Step ==
  (pc = "align") =>
     LET m == Min(Len(image_paths), Len(notes_list)) IN
     IF m = 0
     THEN pc' = "phase1_except"
     ELSE /\ pc' = "audio"
          /\ image_paths' = SubSeq(image_paths, 1, m)
          /\ notes_list' = SubSeq(notes_list, 1, m)

C5_Records ==
  processed_data # << >> =>
     /\ Len(processed_data) = Len(image_paths)
     /\ Len(processed_data) = Len(notes_list)
     /\ \A i \in 1..Len(processed_data) :
          /\ processed_data[i].slide_number = i
          /\ processed_data[i].image_path = image_paths[i]
          /\ processed_data[i].notes = notes_list[i]

C5_NothingToAlign == (Ended /\ (image_paths = << >> \/ notes_list = << >>)) => Failed

C6_DurationFallback ==
  \A k \in 1..Len(segment_files) :
    LET p == probed[segment_files[k].slide] IN
    IF p < 10
    THEN segment_files[k].duration = DefaultSlideDuration
    ELSE segment_files[k].duration = p

C8_SucceededJobReportsOutput ==
  (Succeeded /\ response # NoResponse) =>
     (response.state = "SUCCESS" /\ response.has_result /\ ~response.has_error)

\* ----------------------------------------------------------------------- C9
\* C9: a job whose voice id is not in the voice catalog ends Failed, without
\* a single run of the synthesis engine and without an output video.
C9_UnknownVoiceFailsJob ==
  (Ended /\ voice_id \notin KNOWN_EDGE_VOICES) =>
     (Failed /\ calls["edge_tts"] = 0 /\ final_video = "none")

\* ---------------------------------------------------------------------- C10
\* The job consulted the locator for a tool and got NotFound
NotFoundConsulted ==
  \/ /\ get_tool_path("soffice") = None
     /\ \E i \in 1..Len(updates) : updates[i].status = "Error: soffice not found"
  \/ /\ get_tool_path("ffprobe") = None
     /\ \E n \in DOMAIN probed : probed[n] = ProbeError
  \/ /\ get_tool_path("ffmpeg") = None
     /\ seg_result.called

\* C10: a job that got NotFound from the tool locator for a tool it consulted
\* never ends Succeeded.
C10_NotFoundFailsJob == (Ended /\ NotFoundConsulted) => Failed

\* ---------------------------------------------------------------------- C11
\* The place of a reported stage in the order Start, RenderingSlides,
\* ExtractingNotes, SynthesizingAudio, BuildingSegments, Concatenating,
\* Transcribing, Embedding, CleaningUp, Complete; 0 for the two phase names
\* ("Processing Presentation", "Synthesizing Video") and for a record that
\* names no stage.
StageRank(stage) ==
  CASE stage = STAGE_START -> 1
    [] stage = STAGE_PPT_IMAGES -> 2
    [] stage = STAGE_EXTRACT_NOTES -> 3
    [] stage = STAGE_GENERATE_AUDIO -> 4
    [] stage = STAGE_VIDEO_SEGMENTS -> 5
    [] stage = STAGE_VIDEO_CONCAT -> 6
    [] stage = STAGE_GENERATE_SUBTITLES -> 7
    [] stage = STAGE_ADD_SUBTITLES -> 8
    [] stage = STAGE_CLEANUP -> 9
    [] stage = STAGE_COMPLETE -> 10
    [] OTHER -> 0

\* C11: in the status writes of a job that Succeeded, no stage is reported
\* after a later stage of the order, "Cleaning Up" is reported and every
\* report of it precedes "Complete", and no stage is reported after "Complete".
C11_StagesInOrder ==
  Succeeded =>
    LET n == Len(updates)
        rank(i) == StageRank(updates[i].stage)
    IN
    /\ \A i, j \in 1..n : (i < j /\ rank(i) > 0 /\ rank(j) > 0) => rank(i) <= rank(j)
    /\ \E i \in 1..n : rank(i) = 9
    /\ \A i, j \in 1..n : (rank(i) = 9 /\ rank(j) = 10) => i < j
    /\ \A i, j \in 1..n : (rank(i) = 10 /\ i < j) => rank(j) \in {0, 10}

\* ---------------------------------------------------------------------- C12
\* C12: once a status write of the job has stored the state FAILURE, every
\* later write stores FAILURE too and still carries the error detail.
C12_FailedIsAbsorbing ==
  \A i, j \in 1..Len(updates) :
     (i < j /\ updates[i].state = "FAILURE") =>
        (updates[j].state = "FAILURE" /\ updates[j].error)

\* ---------------------------------------------------------------------- C13
\* There are Slide Records and none of them carries a usable audio clip
NoUsableAudio ==
  /\ processed_data # << >>
  /\ \A i \in 1..Len(processed_data) :
       \/ processed_data[i].audio_path = NoAudio
       \/ processed_data[i].audio_duration <= UsableThreshold

\* Concatenation succeeded: step 3 of the synthesis was opened
ConcatSucceeded ==
  \E i \in 1..Len(updates) : updates[i].status = "Generating subtitles (ASR)"

\* generate_subtitles was entered
TranscriberInvoked == \E i \in 1..Len(updates) : updates[i].status = "Starting ASR"

\* add_subtitles was entered
BurnerInvoked ==
  \E i \in 1..Len(updates) : updates[i].status = "Starting subtitle embedding"

C13_NothingTranscribed ==
  /\ ~TranscriberInvoked
  /\ ~BurnerInvoked
  /\ calls["ffmpeg_audio_concat"] = 0
  /\ calls["whisper"] = 0
  /\ calls["ffmpeg_subtitles"] = 0

\* C13 (as stated): a job without a usable audio clip whose concatenation
\* succeeded never invokes the transcriber or the subtitle burner and ends
\* Succeeded with the un-subtitled video at the output path.
C13_NoAudioAlwaysSucceeds ==
  (Ended /\ NoUsableAudio /\ ConcatSucceeded) =>
     (C13_NothingTranscribed /\ Succeeded /\ final_video = "unsubtitled")

\* C13 (amended): a job without a usable audio clip never invokes the
\* transcriber or the subtitle burner; once its concatenation succeeded it
\* ends Succeeded with the un-subtitled video at the output path when the
\* move of the base video succeeds, and Failed without a complete video there
\* when the move fails.
C13_NoAudioSkipsTranscription ==
  NoUsableAudio =>
     /\ C13_NothingTranscribed
     /\ (Ended /\ ConcatSucceeded) =>
          IF final_video = "unsubtitled" THEN Succeeded
          ELSE Failed /\ final_video \in {"none", "partial"}

C13_Witness ==
  /\ Succeeded
  /\ NoUsableAudio
  /\ \E i \in 1..Len(updates) : updates[i].status = "Skipping ASR (no audio)"
  /\ calls["ffmpeg_concat"] = 1
  /\ final_video = "unsubtitled"

\* ---------------------------------------------------------------------- C14
\* C14: when the subtitle file was generated and its embedding failed, the job
\* ends Succeeded, the path it returns is the output path that holds the
\* un-subtitled video, and the answer to a status query for the finished job
\* is not an error and carries the subtitle warning in its status text.
C14_EmbedFailureWarns ==
  (Ended /\ subtitles_generated /\ EmbeddingFailed /\ response # NoResponse) =>
     /\ Succeeded
     /\ retval = final_video_filename
     /\ final_video = "unsubtitled"
     /\ response.state = "SUCCESS"
     /\ ~response.has_error
     /\ ~response.meta.error
     /\ response.meta.status = "Warning: Subtitles failed, saved video without subtitles"

\* ---------------------------------------------------------------------- C15
\* C15: the meta get_task_status answers with, for the current status and for
\* every status the job has stored (each was the current one when a poll
\* could read it), holds no stack trace and no raw stderr of an external tool.
C15_NoDiagnosticDetail ==
  /\ ~get_task_status.meta.traceback
  /\ ~get_task_status.meta.stderr
  /\ \A i \in 1..Len(updates) :
       LET meta == custom_meta(updates[i].state, updates[i]) IN
       ~meta.traceback /\ ~meta.stderr

\* ---------------------------------------------------------------------- C16
\* The clips of the records whose audio is usable (a clip, and a duration of at
\* least 0.01 s), in the order of the records
RECURSIVE UsableClips(_)
UsableClips(data) ==
  IF data = << >> THEN << >>
  ELSE ( IF Head(data).audio_path # NoAudio /\ Head(data).audio_duration >= 10
         THEN << Head(data).audio_path >> ELSE << >> )
       \o UsableClips(Tail(data))

\* Step 3 of the synthesis has run
Transcribed == pc \in {"embed", "success"} \/ (Ended /\ ConcatSucceeded)

EmbeddingSucceeded ==
  \E i \in 1..Len(updates) :
     updates[i].stage = STAGE_ADD_SUBTITLES /\ updates[i].status = "Subtitles added successfully"

\* C16: the audio paths handed to the transcriber are the clips of the Slide
\* Records with usable audio and no others, in increasing slide order, each the
\* clip of its own slide and a valid file when the transcriber reads it; a job
\* whose subtitle file was generated and embedded ends Succeeded with the
\* subtitled video at the output path.
C16_TranscriberInput ==
  /\ Transcribed =>
       /\ asr_input = UsableClips(processed_data)
       /\ \A i, j \in 1..Len(asr_input) : i < j => asr_input[i] < asr_input[j]
       /\ \A i \in 1..Len(processed_data) :
            processed_data[i].audio_path \in {NoAudio, processed_data[i].slide_number}
  /\ pc = "embed" => \A i \in 1..Len(asr_input) : audio_files[asr_input[i]] = "good"
  /\ (Ended /\ subtitles_generated /\ EmbeddingSucceeded) =>
        (Succeeded /\ final_video = "subtitled")

C16_Witness ==
  /\ Succeeded
  /\ Len(processed_data) = 2
  /\ processed_data[1].audio_duration = 2100
  /\ processed_data[2].notes = "note"
  /\ processed_data[2].audio_path = NoAudio
  /\ calls["edge_tts"] = 2
  /\ asr_input = << 1 >>
  /\ calls["whisper"] = 1
  /\ segment_files[1].duration = 2100
  /\ segment_files[2].duration = DefaultSlideDuration
  /\ final_video = "subtitled"

\* ---------------------------------------------------------------------- C17
\* The segment loop is over and its list goes to concatenate_videos, or the
\* concatenator has been called
ReachedConcat ==
  \/ pc = "segments" /\ idx > Len(processed_data) /\ segment_files # << >>
  \/ \E i \in 1..Len(updates) : updates[i].status = "Concatenating segments"

\* C17: the list handed to concatenate_videos has one segment for each Slide
\* Record, the k-th segment being that of the k-th record, in strictly
\* increasing slide number; each of them is a file when the list is handed over.
C17_OneSegmentPerRecord ==
  /\ ReachedConcat =>
       /\ Len(segment_files) = Len(processed_data)
       /\ \A k \in 1..Len(segment_files) :
            segment_files[k].slide = processed_data[k].slide_number
       /\ \A j, k \in 1..Len(segment_files) :
            j < k => segment_files[j].slide < segment_files[k].slide
  /\ (pc = "segments" /\ idx > Len(processed_data)) =>
       \A k \in 1..Len(segment_files) : segment_files[k].slide \in segment_disk

C17_Witness ==
  /\ pc = "asr"
  /\ ReachedConcat
  /\ calls["ffmpeg_concat"] = 1
  /\ Len(processed_data) = 2
  /\ Len(segment_files) = 2
  /\ segment_files[1].slide = 1
  /\ segment_files[2].slide = 2

\* ---------------------------------------------------------------------- C18
\* C18: the output name of a job is output_filename of its stem and task id
\* and ends in ".mp4", and two jobs with different task ids have different
\* output names.
C18_OutputNamesDistinct ==
  /\ \A j \in Jobs :
       job_out[j] # << >> =>
          /\ job_out[j] = output_filename(job_args[j].stem, job_args[j].task_id)
          /\ SubSeq(job_out[j], Len(job_out[j]) - 3, Len(job_out[j])) = << ".", "m", "p", "4" >>
  /\ \A j, k \in Jobs :
       (j # k /\ job_args[j].task_id # job_args[k].task_id
          /\ job_out[j] # << >> /\ job_out[k] # << >>) => job_out[j] # job_out[k]

\* ---------------------------------------------------------------------- C19
\* C19: two jobs never have the same scratch directory, and while a job needs
\* the files it wrote (phase 2 reads them) they are in its directory: no
\* cleanup of the other job has removed them.
C19_ScratchPrivate ==
  \A j, k \in Jobs :
     j # k =>
       /\ (job_dir[j] # << >> /\ job_dir[k] # << >>) => job_dir[j] # job_dir[k]
       /\ job_pc[k] = "phase2" => << job_dir[k], k >> \in disk

\* ---------------------------------------------------------------------- C20
\* C20: with every external tool invocation returning, every job eventually
\* ends, in Succeeded or in Failed: no stage loops forever and the retry loop
\* of the speech synthesis gives up after its bounded number of attempts.
C20_Terminates == <>(Succeeded \/ Failed)

\* A job that used every attempt the retry loop allows for its last slide and
\* then ran through all the stages to success
C20_Witness ==
  /\ Succeeded
  /\ tts_retries >= 1
  /\ tts_calls = tts_retries + 1
  /\ Len(processed_data) >= 2
  /\ calls["ffmpeg_concat"] = 1

\* ---------------------------------------------------------------------- C21
\* A submission the handler has nothing to object to
ValidSubmission ==
  /\ submit_req.celery_available
  /\ submit_req.can_create
  /\ submit_req.has_file
  /\ allowed_file(submit_req.filename)
  /\ chosen_voice(submit_req) # ""

\* C21: a valid submission yields a job id, the argument list sent is the
\* three inputs the task accepts, and the worker starts the task with them.
C21_SubmitStartsTask ==
  (ValidSubmission /\ submit_out.http # "none") =>
     /\ submit_out.job_id # "none"
     /\ submit_out.args = << "filepath", "FLASK_OUTPUT_BASE_DIR", chosen_voice(submit_req) >>
     /\ delivery \in {"none", "bound"}

C23_NoPartialBeforeRetry ==
  (pc = "tts_attempt" /\ tts_attempt >= 1) => audio_files[idx] = "none"

\* ---------------------------------------------------------------------- C24
\* generate_audio_segment has run its retry loop and is returning
LoopReturned == pc = "tts_return" /\ tts_calls > 0

\* C24: generate_audio_segment returns True exactly when its last attempt left
\* a file above the size threshold; it makes at most max_retries + 1 attempts,
\* stops at the first successful one (k attempts when attempt k succeeds), and
\* returns False only after all max_retries + 1 attempts failed; an undersized
\* or missing file of an attempt the engine called successful never counts.
C24_SuccessIffValidFile ==
  LoopReturned =>
     /\ tts_result \in {"true", "false"}
     /\ tts_result = "true" <=> audio_files[idx] = "good"
     /\ tts_calls <= tts_retries + 1
     /\ tts_result = "true" => tts_calls = tts_attempt + 1
     /\ tts_result = "false" => (tts_calls = tts_retries + 1 /\ audio_files[idx] = "none")

\* The first attempt failed and the second one succeeded
C24_Witness ==
  /\ LoopReturned
  /\ tts_result = "true"
  /\ tts_calls = 2
  /\ audio_files[idx] = "good"

\* ---------------------------------------------------------------------- C25
\* generate_audio_segment was called with a voice id outside the catalog or
\* with empty or whitespace-only text, and is returning
RejectedCall ==
  /\ pc = "tts_return"
  /\ (voice_id \notin KNOWN_EDGE_VOICES \/ notes_list[idx] \in {"", " "})

\* C25: such a call returns False at once: the engine was not called, no
\* attempt of the retry loop was made, and there is no output file.
C25_RejectedAtOnce ==
  RejectedCall =>
     /\ tts_result = "false"
     /\ tts_calls = 0
     /\ tts_attempt = 0
     /\ calls["edge_tts"] = 0
     /\ audio_files[idx] = "none"

\* A known voice with whitespace-only text
C25_Witness ==
  /\ RejectedCall
  /\ voice_id = "en-US-JennyNeural"
  /\ notes_list[idx] = " "
  /\ tts_result = "false"

\* ---------------------------------------------------------------------- C26
\* No tool but the synthesis engine is run twice on the same input
C26_AtMostOnce ==
  /\ calls["soffice"] <= 1
  /\ calls["pdf2image"] <= 1
  /\ calls["ffprobe"] <= Len(audio_results)
  /\ calls["ffmpeg_segment"] <= 2 * Len(processed_data)
  /\ seg_result.muxer_calls <= 2
  /\ calls["ffmpeg_concat"] <= 1
  /\ calls["ffmpeg_audio_concat"] <= 1
  /\ calls["whisper"] <= 1
  /\ calls["ffmpeg_subtitles"] <= 1

\* The prober failed on a clip the engine had produced
ProberFailed == \E n \in 1..MaxSlides : probed[n] = ProbeError

\* C26: the renderer, the muxer steps, the prober and the ASR run are each
\* invoked at most once for the same input, and a job in which the prober
\* failed (a tool that is neither transcription nor embedding) has failed.
C26_OnlySynthesisRetried ==
  /\ C26_AtMostOnce
  /\ (Ended /\ ProberFailed) => Failed

\* ---------------------------------------------------------------------- C27
\* C27: create_video_segment rejects a target duration <= 0 without running
\* the muxer and without producing a file; when it returns False after a muxer
\* step neither the output segment nor the intermediate silent video exists;
\* when it returns True the output segment exists and the silent video does not.
C27_SegmentFiles ==
  seg_result.called =>
     /\ seg_args.duration <= 0 =>
          (~seg_result.ok /\ seg_result.muxer_calls = 0
             /\ ~seg_result.output /\ ~seg_result.temp)
     /\ (~seg_result.ok /\ seg_result.muxer_calls >= 1) =>
          (~seg_result.output /\ ~seg_result.temp)
     /\ seg_result.ok => (seg_result.output /\ ~seg_result.temp)

\* The audio mux of step 2 exited non-zero after step 1 had written the silent video
C27_Witness ==
  /\ seg_result.called
  /\ ~seg_result.ok
  /\ seg_result.muxer_calls = 2
  /\ seg_args.outcome.step2 = "nonzero"
  /\ seg_args.duration = 2100

RECURSIVE ExistingInOrder(_, _)
ExistingInOrder(paths, on_disk) ==
  IF paths = << >> THEN << >>
  ELSE (IF Head(paths) \in on_disk THEN << Head(paths) >> ELSE << >>)
       \o ExistingInOrder(Tail(paths), on_disk)

\* C29: the playlist holds the segments that are still on disk, in the order
\* of the list; when none of them is (or the list is empty) concatenate_videos
\* returns False without running the muxer and without leaving an output file.
C29_VanishedSkipped ==
  concat_io.returned # "none" =>
     LET existing == ExistingInOrder(concat_io.video_file_paths, concat_io.on_disk) IN
     /\ concat_io.muxer_calls = 1 => concat_io.playlist = existing
     /\ existing = << >> =>
          (concat_io.returned = "false" /\ concat_io.muxer_calls = 0 /\ ~concat_io.output)

\* Of three segments given last-first the middle one has vanished
C29_Witness ==
  /\ concat_io.returned = "true"
  /\ concat_io.video_file_paths = << 3, 2, 1 >>
  /\ concat_io.on_disk = {1, 3}
  /\ concat_io.playlist = << 3, 1 >>

\* ---------------------------------------------------------------------- C30
\* C30: once concatenate_videos has returned True, none of the segment files
\* it was given exists in the scratch directory.
C30_SegmentsConsumed ==
  (pc = "asr" /\ base_video) => segment_disk = {}

\* ---------------------------------------------------------------------- C39
\* C39: of any two status updates of a job that carry a percentage, the later
\* one carries a percentage at least as large as the earlier one.
C39_ProgressMonotone ==
  \A i, j \in 1..Len(updates) :
     (i < j /\ updates[i].progress # NoProgress /\ updates[j].progress # NoProgress)
        => updates[i].progress <= updates[j].progress

\* ---------------------------------------------------------------------- C40
\* C40: a job that ended Failed has left no file at its final output path
\* (none existed there when the job started).
C40_FailedLeavesNoVideo ==
  Failed => final_video = "none"

\* ---------------------------------------------------------------------- C32
\* C32: a failed run of add_subtitles leaves no file of its own at the output
\* path; when synthesize_video_for_task returns True one video is at the final
\* output path (the base video if the burn failed) and neither the base video
\* nor the subtitle file is left in the scratch directory.
C32_BurnFailureFallsBack ==
  /\ final_video # "burn_partial"
  /\ pc = "success" =>
       /\ final_video \in {"subtitled", "unsubtitled"}
       /\ ~base_video
       /\ ~srt_exists
       /\ EmbeddingFailed => final_video = "unsubtitled"

\* The burn failed, the base video was moved, and the scratch directory is
\* kept after the job
C32_Witness ==
  /\ Succeeded
  /\ ~cleanup_temp
  /\ subtitles_generated
  /\ EmbeddingFailed
  /\ final_video = "unsubtitled"
  /\ ~base_video

\* ------------------------------------- get_audio_duration on its own
\* What the "duration" key of the container or of a stream can hold
DurationFields == {NoField, BadField, 9, 10, 2100}

ProbeStreams ==
  { [codec_type |-> c, duration |-> d] : c \in {"audio", "video"}, d \in {NoField, BadField, 10, 500} }

\* What one run of ffprobe can come to: an exit other than 0, a timeout of
\* communicate, a FileNotFoundError of Popen, a stdout json.loads refuses, or a
\* JSON object
ProbeOutputs ==
  { [rc |-> r, json |-> FALSE, format |-> NoField, streams |-> << >>] :
       r \in {"nonzero", "timeout", "notfound", "ok"} }
  \cup { [rc |-> "ok", json |-> TRUE, format |-> f, streams |-> st] :
           f \in DurationFields,
           st \in {<< >>} \cup { << a >> : a \in ProbeStreams }
                  \cup { << a, b >> : a \in ProbeStreams, b \in ProbeStreams } }

ProbeInit ==
  /\ voice_id = "zh-CN-XiaoxiaoNeural"
  /\ pptx_is_file = TRUE
  /\ tts_retries = 0
  /\ cleanup_temp = TRUE
  /\ paths_cfg = [t \in Tools |-> t]
  /\ on_path \in {Tools, Tools \ {"ffprobe"}}
  /\ platform_system = "Linux"
  /\ mac_soffice = FALSE
  /\ NothingRun
  /\ JobsIdle
  /\ SubmitIdle
  /\ located = << >>
  /\ seg_args = NoSegmentCall
  /\ concat_io = NoConcatCall
  /\ call_io \in { [fn |-> "get_audio_duration", is_file |-> f, out |-> o,
                    called |-> FALSE, returned |-> Unknown] :
                     f \in BOOLEAN, o \in ProbeOutputs }

\* utils.py 95-185
GetAudioDuration ==
  /\ call_io.fn = "get_audio_duration"
  /\ ~call_io.called
  /\ call_io' = [call_io EXCEPT
         !.called = TRUE,
         !.returned = get_audio_duration(call_io.is_file, get_tool_path("ffprobe"), call_io.out)]
  /\ UNCHANGED << taskState, jobVars, submitVars, located, seg_args, concat_io >>

ProbeSpec == ProbeInit /\ [][GetAudioDuration]_vars

ProbeReturned == call_io.fn = "get_audio_duration" /\ call_io.called

\* The run of ffprobe gave nothing to read a duration from
ProbeRunFailed ==
  \/ ~call_io.is_file
  \/ "ffprobe" \notin on_path
  \/ call_io.out.rc # "ok"
  \/ ~call_io.out.json

AudioStreams ==
  { i \in 1..Len(call_io.out.streams) : call_io.out.streams[i].codec_type = "audio" }

\* The duration the claim reads out of the metadata: the container's when it is
\* there and parseable, the first audio stream's only when the container has none
StatedDuration ==
  LET out == call_io.out IN
  IF out.format >= 0 THEN out.format
  ELSE IF out.format = NoField /\ AudioStreams # {}
       THEN LET first == CHOOSE i \in AudioStreams : \A k \in AudioStreams : i <= k IN
            IF out.streams[first].duration >= 0 THEN out.streams[first].duration ELSE Unknown
  ELSE Unknown

\* C34 (as stated): get_audio_duration returns Unknown for a missing file, a
\* missing ffprobe, a non-zero exit, a timeout, malformed output and a duration
\* under 0.01 s; otherwise it returns the container's duration when present and
\* parseable, and the first audio stream's duration only when the container's
\* is absent.
C34_ProbeAsStated ==
  ProbeReturned =>
     call_io.returned =
        IF ProbeRunFailed \/ StatedDuration < MinProbeDuration THEN Unknown ELSE StatedDuration

\* The audio streams whose duration float() takes
TimedAudioStreams ==
  { i \in AudioStreams : call_io.out.streams[i].duration >= 0 }

\* C34 (amended): as C34, except that the fallback is also taken when the
\* container's duration is present and unparseable, and that it reads the first
\* audio stream that has a parseable duration.
C34_ProbeFallback ==
  ProbeReturned =>
     LET out == call_io.out
         read == IF out.format >= 0 THEN out.format
                 ELSE IF TimedAudioStreams = {} THEN Unknown
                 ELSE out.streams[CHOOSE i \in TimedAudioStreams :
                                     \A k \in TimedAudioStreams : i <= k].duration
     IN
     /\ (ProbeRunFailed \/ read < MinProbeDuration) => call_io.returned = Unknown
     /\ ~(ProbeRunFailed \/ read < MinProbeDuration) => call_io.returned = read

\* The container's duration is unparseable, the first audio stream has none, and
\* the second audio stream's duration is what is returned
C34_Witness ==
  /\ ProbeReturned
  /\ ~ProbeRunFailed
  /\ call_io.out.format = BadField
  /\ Len(call_io.out.streams) = 2
  /\ call_io.out.streams[1] = [codec_type |-> "audio", duration |-> NoField]
  /\ call_io.out.streams[2] = [codec_type |-> "audio", duration |-> 500]
  /\ call_io.returned = 500

\* ------------------------------------- the check of the written subtitle file
\* The lines srt_content can be made of: an empty line, a cue number, a timing
\* line "00:00:01,000 --> 00:00:02,500", and text, with their sizes in bytes
SrtLines ==
  { [kind |-> "blank", bytes |-> 1], [kind |-> "index", bytes |-> 2],
    [kind |-> "timing", bytes |-> 30], [kind |-> "text", bytes |-> 3],
    [kind |-> "text", bytes |-> 12] }

MaxSrtLines == 3

SrtContents ==
  UNION { [1..n -> SrtLines] : n \in 0..MaxSrtLines }

RECURSIVE st_size(_)
\* output_srt_path.stat().st_size after f.write(srt_content)
st_size(content) ==
  IF content = << >> THEN 0 ELSE Head(content).bytes + st_size(Tail(content))

\* video_synthesizer.py 228: line_strip and '-->' in line_strip
\*                           or (line_strip and not line_strip.isdigit())
line_counts(line) ==
  \/ (line.kind # "blank" /\ line.kind = "timing")
  \/ (line.kind # "blank" /\ line.kind # "index")

\* video_synthesizer.py 222-244: srt_is_valid when the check is over
srt_is_valid(content, stat_raises) ==
  IF stat_raises THEN FALSE
  ELSE IF st_size(content) > 5
       THEN \E i \in 1..Len(content) : line_counts(content[i])
  ELSE FALSE

SrtInit ==
  /\ voice_id = "zh-CN-XiaoxiaoNeural"
  /\ pptx_is_file = TRUE
  /\ tts_retries = 0
  /\ cleanup_temp = TRUE
  /\ paths_cfg = [t \in Tools |-> t]
  /\ on_path = Tools
  /\ platform_system = "Linux"
  /\ mac_soffice = FALSE
  /\ NothingRun
  /\ JobsIdle
  /\ SubmitIdle
  /\ located = << >>
  /\ seg_args = NoSegmentCall
  /\ concat_io = NoConcatCall
  /\ call_io \in { [fn |-> "write_srt", srt_content |-> c, stat_raises |-> e,
                    called |-> FALSE, returned |-> FALSE, srt_file |-> FALSE] :
                     c \in SrtContents, e \in BOOLEAN }

\* video_synthesizer.py 218-251: the file is written, checked, unlinked when
\* the check fails, and generate_subtitles returns
WriteSrt ==
  /\ call_io.fn = "write_srt"
  /\ ~call_io.called
  /\ LET valid == srt_is_valid(call_io.srt_content, call_io.stat_raises) IN
     call_io' = [call_io EXCEPT !.called = TRUE, !.returned = valid, !.srt_file = valid]
  /\ UNCHANGED << taskState, jobVars, submitVars, located, seg_args, concat_io >>

SrtSpec == SrtInit /\ [][WriteSrt]_vars

HasTimingLine(content) == \E i \in 1..Len(content) : content[i].kind = "timing"

\* C31: generate_subtitles returns success only if the subtitle file it wrote
\* is more than trivial in size and has a timing line (one with "-->"); for any
\* other content it deletes the file and returns failure.
C31_SrtValidated ==
  (call_io.fn = "write_srt" /\ call_io.called) =>
     LET good == st_size(call_io.srt_content) > 5 /\ HasTimingLine(call_io.srt_content) IN
     /\ call_io.returned => good
     /\ ~good => (~call_io.returned /\ ~call_io.srt_file)

\* ------------------------------------- the renaming of the page images
MaxPages == 3

\* The names pdftocairo can give its pages that glob("slide_*.png") finds:
\* slide_<n>.png and slide_0001-<n>.png
ImageNames ==
  { [form |-> f, n |-> k] : f \in {"slide_", "slide_0001-"}, k \in 0..MaxPages }

\* ppt_exporter_libreoffice.py 213: f"slide_{slide_number}.png"
new_filename(slide_number) == [form |-> "slide_", n |-> slide_number]

NoPage == 0

RenameInit ==
  /\ voice_id = "zh-CN-XiaoxiaoNeural"
  /\ pptx_is_file = TRUE
  /\ tts_retries = 0
  /\ cleanup_temp = TRUE
  /\ paths_cfg = [t \in Tools |-> t]
  /\ on_path = Tools
  /\ platform_system = "Linux"
  /\ mac_soffice = FALSE
  /\ NothingRun
  /\ JobsIdle
  /\ SubmitIdle
  /\ located = << >>
  /\ seg_args = NoSegmentCall
  /\ concat_io = NoConcatCall
  /\ \E num \in 1..MaxPages :
       \E naming \in [1..num -> ImageNames], by_mtime \in [1..num -> 1..num] :
          /\ \A a, b \in 1..num : a # b => (naming[a] # naming[b] /\ by_mtime[a] # by_mtime[b])
          /\ LET written == [nm \in ImageNames |->
                               IF \E pg \in 1..num : naming[pg] = nm
                               THEN CHOOSE pg \in 1..num : naming[pg] = nm ELSE NoPage]
             IN call_io = [ fn |-> "rename", written |-> written, disk |-> written,
                            generated_images |-> [i \in 1..num |-> naming[by_mtime[i]]],
                            i |-> 0, exported_files |-> << >> ]

\* ppt_exporter_libreoffice.py 211-236: one turn of the loop over generated_images
RenameImage ==
  /\ call_io.fn = "rename"
  /\ call_io.i < Len(call_io.generated_images)
  /\ LET old_path == call_io.generated_images[call_io.i + 1]
         new_path == new_filename(call_io.i + 1)
         \* 216-218: new_path.unlink() when it exists and is another file
         unlinked == IF call_io.disk[new_path] # NoPage /\ old_path # new_path
                     THEN [call_io.disk EXCEPT ![new_path] = NoPage] ELSE call_io.disk
     IN
     IF old_path = new_path
     THEN call_io' = [call_io EXCEPT !.i = @ + 1, !.exported_files = Append(@, new_path)]
     ELSE IF unlinked[old_path] # NoPage
     THEN call_io' = [call_io EXCEPT
            !.i = @ + 1,
            !.disk = [unlinked EXCEPT ![new_path] = unlinked[old_path], ![old_path] = NoPage],
            !.exported_files = Append(@, new_path)]
     ELSE \* 234-236: rename raised OSError
          call_io' = [call_io EXCEPT !.i = @ + 1, !.disk = unlinked,
                                     !.exported_files = Append(@, old_path)]
  /\ UNCHANGED << taskState, jobVars, submitVars, located, seg_args, concat_io >>

RenameSpec == RenameInit /\ [][RenameImage]_vars

\* C35: whatever names and modification-time order the rasterizer gave its N
\* page images, no page image is lost while the images are renamed, and the
\* list returned is slide_1.png .. slide_N.png, each an existing file holding
\* the page that was k-th by modification time.
C35_RenamedInOrder ==
  call_io.fn = "rename" =>
     LET num == Len(call_io.generated_images) IN
     /\ \A pg \in 1..num : \E nm \in ImageNames : call_io.disk[nm] = pg
     /\ call_io.i = num =>
          /\ call_io.exported_files = [k \in 1..num |-> new_filename(k)]
          /\ \A k \in 1..num :
               call_io.disk[new_filename(k)] = call_io.written[call_io.generated_images[k]]

\* ---------------------------------------------------------------------- C33
\* The places get_tool_path is said to look in, in order, that resolve: the
\* configured value (as a path or on the PATH), the bare name on the PATH, the
\* fixed location of soffice on macOS
ResolvingPlaces(tool_name) ==
  (IF paths_cfg[tool_name] # NoEntry /\ paths_cfg[tool_name] \in on_path
   THEN << paths_cfg[tool_name] >> ELSE << >>)
  \o (IF tool_name \in on_path THEN << tool_name >> ELSE << >>)
  \o (IF tool_name = "soffice" /\ platform_system = "Darwin" /\ mac_soffice
      THEN << MacSofficePath >> ELSE << >>)

\* C33: get_tool_path returns the first of the places (a) configured path,
\* (b) configured value on the PATH, (c) bare name on the PATH, (d) fixed
\* location of soffice on macOS that resolves, and None exactly when none
\* does, also when the configuration has no entry for the tool.
C33_ResolutionOrder ==
  \A i \in 1..Len(located) :
     located[i].path = IF ResolvingPlaces(located[i].tool) = << >> THEN None
                       ELSE Head(ResolvingPlaces(located[i].tool))

\* soffice without a configuration entry and not on the PATH is found at its
\* fixed location on macOS, while the configured ffmpeg wins over the bare name
C33_Witness ==
  /\ Len(located) = 2
  /\ located[1] = [tool |-> "soffice", path |-> MacSofficePath]
  /\ paths_cfg["soffice"] = NoEntry
  /\ "soffice" \notin on_path
  /\ located[2] = [tool |-> "ffmpeg", path |-> "/opt/bin/ffmpeg"]
  /\ "ffmpeg" \in on_path

\* ---------------------------------------------------------------------- C36
\* Phase 1 has handed its Slide Records over and the scratch directory is
\* still there
RecordsHandedOver == pc \in {"segments", "asr", "embed"} /\ processed_data # << >>

\* C36: every Slide Record handed to phase 2 has an audio duration of 0 or
\* above the minimum threshold; a positive duration comes with an audio path; a
\* record whose note was empty, or whose synthesis left no valid file, has no
\* audio path and duration 0; slide numbers start at 1 or above and increase
\* strictly.
C36_SlideRecords ==
  RecordsHandedOver =>
     /\ \A i \in 1..Len(processed_data) :
          LET r == processed_data[i] IN
          /\ r.audio_duration = 0 \/ r.audio_duration > UsableThreshold
          /\ r.audio_duration > 0 => r.audio_path # NoAudio
          /\ (IsBlank(notes_list[r.slide_number]) \/ audio_files[r.slide_number] # "good")
                => (r.audio_path = NoAudio /\ r.audio_duration = 0)
          /\ r.slide_number >= 1
     /\ \A i, j \in 1..Len(processed_data) :
          i < j => processed_data[i].slide_number < processed_data[j].slide_number

\* Two records: one with usable audio, one whose synthesis failed
C36_Witness ==
  /\ RecordsHandedOver
  /\ Len(processed_data) = 2
  /\ processed_data[1].audio_duration > UsableThreshold
  /\ processed_data[1].audio_path # NoAudio
  /\ ~IsBlank(notes_list[2])
  /\ processed_data[2].audio_path = NoAudio
  /\ processed_data[2].audio_duration = 0

\* ---------------------------------------------------------------------- C38
\* C38: a segment has an audio track only if its duration is that of its
\* slide's audio; a segment of the default duration is silent; and the audio
\* clip is handed to create_video_segment exactly when the slide's audio
\* duration is usable and the file exists.
C38_AudioOnlyWithItsDuration ==
  (pc \in {"segments", "asr", "embed"}) =>
     \A k \in 1..Len(segment_files) :
        LET seg == segment_files[k] IN
        \A i \in 1..Len(processed_data) :
           processed_data[i].slide_number = seg.slide =>
              LET r == processed_data[i] IN
              /\ seg.audio => (r.audio_duration > UsableThreshold
                                /\ seg.duration = r.audio_duration
                                /\ seg.passed = r.audio_path)
              /\ seg.duration = DefaultSlideDuration => (~seg.audio /\ seg.passed = NoAudio)
              /\ seg.passed # NoAudio <=>
                    (/\ r.audio_duration > UsableThreshold
                     /\ r.audio_path # NoAudio
                     /\ audio_files[r.slide_number] # "none")

\* A narrated segment, and a silent one of the default duration for a slide
\* whose clip exists but whose duration could not be probed
C38_Witness ==
  /\ pc = "asr"
  /\ Len(segment_files) = 2
  /\ segment_files[1].audio /\ segment_files[1].passed = 1
  /\ segment_files[2].duration = DefaultSlideDuration
  /\ ~segment_files[2].audio
  /\ processed_data[2].audio_path = 2
  /\ audio_files[2] = "good"

\* ---------------------------------------------------------------------- C37
RECURSIVE TotalOf(_)
\* The sum of a sequence of durations
TotalOf(durations) ==
  IF durations = << >> THEN 0 ELSE Head(durations) + TotalOf(Tail(durations))

\* Where the k-th clip handed to generate_subtitles starts in the audio it
\* concatenates: the durations of the clips before it
ClipOffset(k) ==
  TotalOf([ j \in 1..(k - 1) |->
              (CHOOSE r \in RecordsOf(asr_input[j]) : TRUE).audio_duration ])

\* Where the segment of a slide starts in the concatenated video: the
\* durations of the segments of the slides before it
SegmentOffset(slide_number) ==
  LET earlier == SelectSeq(segment_files, LAMBDA seg : seg.slide < slide_number) IN
  TotalOf([ j \in 1..Len(earlier) |-> earlier[j].duration ])

\* C37: for every slide with usable audio, its clip starts in the audio the
\* transcriber concatenates where its segment starts in the concatenated video.
C37_SameTimeBase ==
  (pc = "embed" /\ base_video) =>
     \A k \in 1..Len(asr_input) : ClipOffset(k) = SegmentOffset(asr_input[k])

====
